---- MODULE Spec2Model ----
(***************************************************************************)
(* Scene batch collection and pipeline-state resolution of rbfx:           *)
(*   Source/Urho3D/Graphics/SceneBatchCollector.cpp                        *)
(*   Source/Urho3D/Graphics/ScenePass.cpp                                  *)
(* The collector (visibility, source batches, lights) and the scene pass   *)
(* (final batches, pipeline-state caches) are two state machines over one  *)
(* set of variables; each specification below drives one of them.          *)
(***************************************************************************)
EXTENDS Integers, Sequences, FiniteSets, TLC

(* ------------------------------ bounds --------------------------------- *)

\* Largest number of drawables in a scene.
MaxDrawables == 2
\* Lanes of the work queue: worker threads plus the calling thread.
NumThreads == 2

\* Frames of the scene pass.
MaxFrames == 2

(* ------------------------- program constants --------------------------- *)

\* 0xffffffff, the "no index" value; written as its two's-complement reading.
M_MAX_UNSIGNED == -1
M_LARGE_VALUE == 100000000

NULL == <<>>

Threads == 0 .. (NumThreads - 1)

(* ------------------------------ assets --------------------------------- *)
\* Pass indices as Technique::GetPassIndex resolves the pass names.
BASE_PASS == 0
LITBASE_PASS == 1
LIGHT_PASS == 2

\* A technique: whether the hardware supports it, and the passes it has.
Techniques ==
    [ techUnlit     |-> [supported |-> TRUE,  passes |-> {BASE_PASS}],
      techLit       |-> [supported |-> TRUE,  passes |-> {BASE_PASS, LITBASE_PASS, LIGHT_PASS}],
      techUnlitBase |-> [supported |-> TRUE,  passes |-> {BASE_PASS, LIGHT_PASS}],
      techLightOnly |-> [supported |-> TRUE,  passes |-> {LIGHT_PASS}],
      techNone      |-> [supported |-> TRUE,  passes |-> {}],
      techHigh      |-> [supported |-> FALSE, passes |-> {BASE_PASS}] ]

\* Technique::GetPass: the pass at the index, null when the technique has none there.
GetPass(technique, passIndex) ==
    IF passIndex \in Techniques[technique].passes THEN <<technique, passIndex>> ELSE NULL

\* A technique entry of a material.
TechniqueEntry(technique, qualityLevel, lodDistance) ==
    [technique_ |-> technique, qualityLevel_ |-> qualityLevel, lodDistance_ |-> lodDistance]

\* Material::GetTechniques of the materials of the scene.
Materials ==
    [ matDefault   |-> << TechniqueEntry("techUnlit", 0, 0) >>,
      matUnlit     |-> << TechniqueEntry("techUnlit", 0, 0) >>,
      matLit       |-> << TechniqueEntry("techLit", 0, 0) >>,
      matUnlitBase |-> << TechniqueEntry("techUnlitBase", 0, 0) >>,
      matLightOnly |-> << TechniqueEntry("techLightOnly", 0, 0) >>,
      matNone      |-> << TechniqueEntry("techNone", 0, 0) >>,
      matNullTech  |-> << TechniqueEntry("nullptr", 0, 0) >>,
      matLod       |-> << TechniqueEntry("techHigh", 0, 0),
                          TechniqueEntry("techLit", 2, 0),
                          TechniqueEntry("techUnlitBase", 0, 5),
                          TechniqueEntry("techUnlit", 0, 0) >>,
      matFallback  |-> << TechniqueEntry("techLit", 2, 0),
                          TechniqueEntry("techUnlit", 0, 5) >>,
      matNullLast  |-> << TechniqueEntry("techLit", 2, 7),
                          TechniqueEntry("nullptr", 0, 0) >>,
      matEmpty     |-> << >> ]

\* Renderer::GetDefaultMaterial.
DefaultMaterial == "matDefault"

\* The null technique or material.
NullName == "nullptr"

(* ----------------------------- drawables ------------------------------- *)
\* What the collector reads of a drawable; a light mask is its set of bits.
\*   vol: what the octree reports of the drawable to a light's volume query:
\*   "outside" (not a candidate), "inside" (octant inside the volume),
\*   "boxpass" / "boxfail" (a candidate whose bounding box the volume test
\*   accepts / rejects).
\*   box: <<length of the bounding box's half-extent, view-space Z of its
\*   centre, its half-extent along the view direction>>.
Drawable(flags, drawDistance, distance, lightMask, batches, lodDistance, box, vol, light) ==
    [ flags |-> flags, drawDistance |-> drawDistance, distance |-> distance,
      lightMask |-> lightMask, batches |-> batches, lodDistance |-> lodDistance,
      box |-> box, vol |-> vol, light |-> light ]

\* What the collector reads of a light.
LightProps(lightType, black, baked, importance, scaledDistance) ==
    [ lightType |-> lightType, black |-> black, baked |-> baked,
      importance |-> importance, scaledDistance |-> scaledDistance ]

NoLight == LightProps("none", TRUE, TRUE, 0, 0)

SourceBatch(geometry, material) == [geometry_ |-> geometry, material_ |-> material]

Geometry(drawDistance, distance, lightMask, batches, vol) ==
    Drawable({"GEOMETRY"}, drawDistance, distance, lightMask, batches, 0, <<1, 5, 1>>, vol, NoLight)

Light(drawDistance, distance, lightMask, light) ==
    Drawable({"LIGHT"}, drawDistance, distance, lightMask, <<>>, 0, <<0, 0, 0>>, "outside", light)

Zone(drawDistance, distance) ==
    Drawable({"ZONE"}, drawDistance, distance, {}, <<>>, 0, <<0, 0, 0>>, "outside", NoLight)

\* Light::GetLightMaskEffective: a baked light has no effective mask.
GetLightMaskEffective(d) == IF d.light.baked THEN {} ELSE d.lightMask

(* ------------------------------ state ---------------------------------- *)
VARIABLES
    \* --- environment of the collector
    scene,               \* octree_->GetAllDrawables(): drawable index -> drawable
    passInput,           \* the descriptions handed to InitializePasses
    quality,             \* [renderer: material quality, low: camera override]
    \* --- SceneBatchCollector
    pc,                  \* position of the frame in the collector
    materialQuality_,
    passes_,
    visibleGeometries_,  \* ThreadedVector: thread -> sequence
    visibleLightsTemp_,
    visibleLights_,
    sceneZRange_,        \* thread -> accumulated range, NULL when empty
    traits_,             \* transient_.traits_
    zRange_,             \* transient_.zRange_
    drawableLighting_,   \* drawable index -> ranked <<importance, distance, light index>>
    cachedLightData_,    \* light (drawable index) -> litGeometries_
    visibleLightsData_,  \* light data of each visible light, by visible-light index
    work,                \* work items of the running parallel phase, not yet run
    \* --- environment of the scene pass
    collectArgs,         \* arguments of ScenePass::CollectSceneBatches
    \* --- ScenePass
    passPc,              \* position of the frame in the scene pass
    frame,               \* frames begun
    unlitBatches_,       \* ThreadedVector of IntermediateSceneBatch
    litBatches_,
    unlitBaseBatchesDirty_,  \* ThreadedVector of slots of unlitBaseBatches_
    litBaseBatchesDirty_,    \* ThreadedVector of slots of litBaseBatches_
    lightBatchesDirty_,      \* ThreadedVector of indices into the lane's lightBatches_
    unlitBaseBatches_,
    litBaseBatches_,
    lightBatches_,           \* ThreadedVector of BaseSceneBatch
    unlitPipelineStateCache_,            \* key -> pipeline state
    litPipelineStateCache_,
    additionalLightPipelineStateCache_,
    passWork,            \* partitions of the running parallel phase, not yet run
    created,             \* <<cache, key>> -> calls of the creation callback so far
    slotWrites           \* slot of unlitBaseBatches_ -> lanes that wrote it this frame

collectorVars ==
    << scene, passInput, quality, pc, materialQuality_, passes_, visibleGeometries_,
       visibleLightsTemp_, visibleLights_, sceneZRange_, traits_, zRange_,
       drawableLighting_, cachedLightData_, visibleLightsData_, work >>

scenePassVars ==
    << collectArgs, passPc, frame, unlitBatches_, litBatches_, unlitBaseBatchesDirty_,
       litBaseBatchesDirty_, lightBatchesDirty_, unlitBaseBatches_, litBaseBatches_,
       lightBatches_, unlitPipelineStateCache_, litPipelineStateCache_,
       additionalLightPipelineStateCache_, passWork, created, slotWrites >>

vars == << collectorVars, scenePassVars >>

(* ------------------------- ThreadedVector ------------------------------ *)
\* ThreadedVector::Clear(numThreads): one empty collection per lane.
TVClear == [t \in Threads |-> <<>>]

\* ThreadedVector::Insert(threadIndex, value).
TVInsert(tv, threadIndex, value) == [tv EXCEPT ![threadIndex] = Append(@, value)]

RECURSIVE TVFlattenFrom(_, _)
TVFlattenFrom(tv, t) ==
    IF t \notin DOMAIN tv THEN <<>> ELSE tv[t] \o TVFlattenFrom(tv, t + 1)

\* The elements in ForEach / CopyTo order: by lane, then by insertion.
TVFlatten(tv) == TVFlattenFrom(tv, 0)

TVSize(tv) == Len(TVFlatten(tv))

\* The set of elements of a sequence.
Range(s) == {s[i] : i \in DOMAIN s}

(* --------------------------- FindTechnique ----------------------------- *)
RECURSIVE FindTechniqueFrom_NoQuality(_, _, _, _)
\* The loop without the test of the entry's quality level.
FindTechniqueFrom_NoQuality(techniques, i, lodDistance, materialQuality) ==
    IF i > Len(techniques)
    THEN IF Len(techniques) > 0 THEN techniques[Len(techniques)].technique_ ELSE NullName
    ELSE LET entry == techniques[i]
             tech == entry.technique_
         IN  IF tech = NullName \/ ~Techniques[tech].supported
             THEN FindTechniqueFrom_NoQuality(techniques, i + 1, lodDistance, materialQuality)
             ELSE IF lodDistance >= entry.lodDistance_
                  THEN tech
                  ELSE FindTechniqueFrom_NoQuality(techniques, i + 1, lodDistance, materialQuality)

RECURSIVE FindTechniqueFrom(_, _, _, _)
\* The loop of FindTechnique from entry i on, and the fallback to the last entry.
FindTechniqueFrom(techniques, i, lodDistance, materialQuality) ==
    IF i > Len(techniques)
    THEN IF Len(techniques) > 0 THEN techniques[Len(techniques)].technique_ ELSE NullName
    ELSE LET entry == techniques[i]
             tech == entry.technique_
         IN  IF tech = NullName \/ ~Techniques[tech].supported
                \/ materialQuality < entry.qualityLevel_
             THEN FindTechniqueFrom(techniques, i + 1, lodDistance, materialQuality)
             ELSE IF lodDistance >= entry.lodDistance_
                  THEN tech
                  ELSE FindTechniqueFrom(techniques, i + 1, lodDistance, materialQuality)

FindTechnique(drawable, material, materialQuality) ==
    LET techniques == Materials[material]
    IN  IF Len(techniques) = 1
        THEN techniques[1].technique_
        ELSE FindTechniqueFrom(techniques, 1, drawable.lodDistance, materialQuality)

(* ------------------------------ PassData ------------------------------- *)
\* A pass description with its pass names resolved to indices.
PassDesc(type, base, firstLight, additionalLight) ==
    [ type_ |-> type, basePassIndex_ |-> base, firstLightPassIndex_ |-> firstLight,
      additionalLightPassIndex_ |-> additionalLight ]

\* A default-constructed PassData.
NewPassData ==
    [ type_ |-> "Unlit", basePassIndex_ |-> 0, firstLightPassIndex_ |-> 0,
      additionalLightPassIndex_ |-> 0,
      unlitBatches_ |-> TVClear, litBatches_ |-> TVClear,
      unlitBaseSceneBatches_ |-> <<>>, litBaseSceneBatches_ |-> <<>> ]

CheckSubPasses(pass, hasBase, hasFirstLight, hasAdditionalLight) ==
    /\ (pass.basePassIndex_ # M_MAX_UNSIGNED) = hasBase
    /\ (pass.firstLightPassIndex_ # M_MAX_UNSIGNED) = hasFirstLight
    /\ (pass.additionalLightPassIndex_ # M_MAX_UNSIGNED) = hasAdditionalLight

\* IsValid with the base pass required of a ForwardLitBase pass.
IsValid_BaseRequired(pass) ==
    CASE pass.type_ = "Unlit" -> CheckSubPasses(pass, TRUE, FALSE, FALSE)
      [] pass.type_ = "ForwardLitBase" -> CheckSubPasses(pass, TRUE, TRUE, TRUE)
      [] pass.type_ = "ForwardUnlitBase" -> CheckSubPasses(pass, TRUE, FALSE, TRUE)
      [] OTHER -> FALSE

IsValid(pass) ==
    CASE pass.type_ = "Unlit" -> CheckSubPasses(pass, TRUE, FALSE, FALSE)
      [] pass.type_ = "ForwardLitBase" ->
            CheckSubPasses(pass, FALSE, TRUE, TRUE) \/ CheckSubPasses(pass, TRUE, TRUE, TRUE)
      [] pass.type_ = "ForwardUnlitBase" -> CheckSubPasses(pass, TRUE, FALSE, TRUE)
      [] OTHER -> FALSE

IntermediateSceneBatch(geometry, sourceBatchIndex, basePass, additionalPass) ==
    [ geometry_ |-> geometry, sourceBatchIndex_ |-> sourceBatchIndex,
      basePass_ |-> basePass, additionalPass_ |-> additionalPass ]

\* A value-initialised IntermediateSceneBatch.
EmptyIntermediateSceneBatch == IntermediateSceneBatch(NULL, 0, NULL, NULL)

\* A lit batch whenever the technique has the additional-light pass.
CreateIntermediateSceneBatch_LitWithoutBase(pass, geometry, sourceBatchIndex, basePass, firstLightPass, additionalLightPass) ==
    IF pass.type_ = "Unlit" \/ additionalLightPass = NULL
    THEN IntermediateSceneBatch(geometry, sourceBatchIndex, basePass, NULL)
    ELSE IF pass.type_ = "ForwardUnlitBase"
    THEN IntermediateSceneBatch(geometry, sourceBatchIndex, basePass, additionalLightPass)
    ELSE IntermediateSceneBatch(geometry, sourceBatchIndex, firstLightPass, additionalLightPass)

CreateIntermediateSceneBatch(pass, geometry, sourceBatchIndex, basePass, firstLightPass, additionalLightPass) ==
    IF pass.type_ = "Unlit" \/ additionalLightPass = NULL
    THEN IntermediateSceneBatch(geometry, sourceBatchIndex, basePass, NULL)
    ELSE IF pass.type_ = "ForwardUnlitBase" /\ basePass # NULL /\ additionalLightPass # NULL
    THEN IntermediateSceneBatch(geometry, sourceBatchIndex, basePass, additionalLightPass)
    ELSE IF pass.type_ = "ForwardLitBase" /\ firstLightPass # NULL /\ additionalLightPass # NULL
    THEN IntermediateSceneBatch(geometry, sourceBatchIndex, firstLightPass, additionalLightPass)
    ELSE EmptyIntermediateSceneBatch

\* PassData::Clear.
PassDataClear(pass) == [pass EXCEPT !.unlitBatches_ = TVClear, !.litBatches_ = TVClear]

(* ------------------------ DrawableZRangeEvaluator ---------------------- *)
\* A default-constructed DrawableZRange, which is not valid.
InvalidZRange == <<M_LARGE_VALUE, 0 - M_LARGE_VALUE>>

ZRangeIsValid(zRange) == zRange[1] <= zRange[2]

\* Evaluate without the test for "infinite" objects.
Evaluate_NoInfinite(drawable) ==
    LET viewCenterZ == drawable.box[2]
        viewEdgeZ == drawable.box[3]
    IN  <<viewCenterZ - viewEdgeZ, viewCenterZ + viewEdgeZ>>

Evaluate(drawable) ==
    LET edgeLength == drawable.box[1]
        viewCenterZ == drawable.box[2]
        viewEdgeZ == drawable.box[3]
    IN  \* edge.LengthSquared() >= M_LARGE_VALUE * M_LARGE_VALUE, lengths being >= 0
        IF edgeLength >= M_LARGE_VALUE
        THEN InvalidZRange
        ELSE <<viewCenterZ - viewEdgeZ, viewCenterZ + viewEdgeZ>>

Min(a, b) == IF a <= b THEN a ELSE b
Max(a, b) == IF a >= b THEN a ELSE b

\* SceneZRange::Accumulate(threadIndex, zRange).
ZRangeAccumulate(sceneZRange, threadIndex, zRange) ==
    [ sceneZRange EXCEPT ![threadIndex] =
        IF @ = NULL THEN zRange ELSE <<Min(@[1], zRange[1]), Max(@[2], zRange[2])>> ]

(* ----------------- UpdateAndCollectSourceBatchesForThread -------------- *)
\* A pointer to the drawable of an index.
DrawablePtr(drawableIndex) == <<drawableIndex>>

\* GetDrawableIndex of a pointer.
GetDrawableIndex(ptr) == ptr[1]

\* The collector's members a lane writes while it walks its drawables.
LaneState ==
    [ traits_ |-> traits_, zRange_ |-> zRange_, sceneZRange_ |-> sceneZRange_,
      visibleGeometries_ |-> visibleGeometries_, visibleLightsTemp_ |-> visibleLightsTemp_,
      passes_ |-> passes_, drawableLighting_ |-> drawableLighting_ ]

RECURSIVE FillPasses(_, _, _, _, _, _)
\* "Fill passes": the loop over passes_ for source batch i, from pass p on.
FillPasses(st, threadIndex, drawableIndex, i, technique, p) ==
    IF p > Len(st.passes_)
    THEN st
    ELSE LET pass == st.passes_[p]
             basePass == GetPass(technique, pass.basePassIndex_)
             firstLightPass == GetPass(technique, pass.firstLightPassIndex_)
             additionalLightPass == GetPass(technique, pass.additionalLightPassIndex_)
             sceneBatch == CreateIntermediateSceneBatch(pass, DrawablePtr(drawableIndex), i,
                               basePass, firstLightPass, additionalLightPass)
             st1 == IF sceneBatch.additionalPass_ # NULL
                    THEN [st EXCEPT !.traits_[drawableIndex] = @ \cup {"ForwardLit"},
                                    !.passes_[p].litBatches_ = TVInsert(@, threadIndex, sceneBatch)]
                    ELSE IF sceneBatch.basePass_ # NULL
                    THEN [st EXCEPT !.passes_[p].unlitBatches_ = TVInsert(@, threadIndex, sceneBatch)]
                    ELSE st
         IN  FillPasses(st1, threadIndex, drawableIndex, i, technique, p + 1)

RECURSIVE CollectBatches(_, _, _, _)
\* "Collect batches": the loop over the source batches of a geometry, from batch i on.
CollectBatches(st, threadIndex, drawableIndex, i) ==
    LET sourceBatches == scene[drawableIndex].batches
    IN  IF i >= Len(sourceBatches)
        THEN st
        ELSE LET sourceBatch == sourceBatches[i + 1]
                 material == IF sourceBatch.material_ # NullName
                             THEN sourceBatch.material_ ELSE DefaultMaterial
                 technique == FindTechnique(scene[drawableIndex], material, materialQuality_)
                 st1 == IF technique = NullName
                        THEN st
                        ELSE FillPasses(st, threadIndex, drawableIndex, i, technique, 1)
             IN  CollectBatches(st1, threadIndex, drawableIndex, i + 1)

\* The geometry branch without the reset of the light accumulator.
CollectGeometry_NoReset(st, threadIndex, drawableIndex) ==
    LET drawable == scene[drawableIndex]
        zRange == Evaluate(drawable)
        st1 == IF ~ZRangeIsValid(zRange)
               THEN [st EXCEPT !.zRange_[drawableIndex] = <<M_LARGE_VALUE, M_LARGE_VALUE>>]
               ELSE [st EXCEPT !.zRange_[drawableIndex] = zRange,
                               !.sceneZRange_ = ZRangeAccumulate(@, threadIndex, zRange)]
        st2 == [st1 EXCEPT
                  !.visibleGeometries_ = TVInsert(@, threadIndex, DrawablePtr(drawableIndex)),
                  !.traits_[drawableIndex] = @ \cup {"DrawableVisibleGeometry"}]
    IN  CollectBatches(st2, threadIndex, drawableIndex, 0)

\* The geometry branch of the loop body.
CollectGeometry(st, threadIndex, drawableIndex) ==
    LET drawable == scene[drawableIndex]
        zRange == Evaluate(drawable)
        st1 == IF ~ZRangeIsValid(zRange)
               THEN [st EXCEPT !.zRange_[drawableIndex] = <<M_LARGE_VALUE, M_LARGE_VALUE>>]
               ELSE [st EXCEPT !.zRange_[drawableIndex] = zRange,
                               !.sceneZRange_ = ZRangeAccumulate(@, threadIndex, zRange)]
        st2 == [st1 EXCEPT
                  !.visibleGeometries_ = TVInsert(@, threadIndex, DrawablePtr(drawableIndex)),
                  !.traits_[drawableIndex] = @ \cup {"DrawableVisibleGeometry"}]
        st3 == CollectBatches(st2, threadIndex, drawableIndex, 0)
    IN  [st3 EXCEPT !.drawableLighting_[drawableIndex] = <<>>]

\* The light branch of the loop body.
CollectLight(st, threadIndex, drawableIndex) ==
    LET light == scene[drawableIndex]
    IN  IF ~light.light.black /\ GetLightMaskEffective(light) # {}
        THEN [st EXCEPT !.visibleLightsTemp_ = TVInsert(@, threadIndex, DrawablePtr(drawableIndex))]
        ELSE st

RECURSIVE UpdateAndCollectSourceBatchesForThread(_, _, _, _)
\* The loop over the lane's drawables, from the k-th on; a drawable beyond
\* its draw distance returns from the function.
UpdateAndCollectSourceBatchesForThread(st, threadIndex, drawables, k) ==
    IF k > Len(drawables)
    THEN st
    ELSE LET drawableIndex == drawables[k]
             drawable == scene[drawableIndex]
             st1 == [st EXCEPT !.traits_[drawableIndex] = @ \cup {"DrawableUpdated"}]
             maxDistance == drawable.drawDistance
         IN  IF maxDistance > 0 /\ drawable.distance > maxDistance
             THEN st1
             ELSE IF "GEOMETRY" \in drawable.flags
             THEN UpdateAndCollectSourceBatchesForThread(
                      CollectGeometry(st1, threadIndex, drawableIndex), threadIndex, drawables, k + 1)
             ELSE IF "LIGHT" \in drawable.flags
             THEN UpdateAndCollectSourceBatchesForThread(
                      CollectLight(st1, threadIndex, drawableIndex), threadIndex, drawables, k + 1)
             ELSE UpdateAndCollectSourceBatchesForThread(st1, threadIndex, drawables, k + 1)

(* ---------------------------- ForEachParallel -------------------------- *)
\* The contiguous partitions <<offset, size>> of a collection of `count`
\* elements cut after the positions in `cuts`.
Partitions(count, cuts) ==
    IF count = 0 THEN {} ELSE
    LET edges == {0, count} \cup cuts
    IN  { <<p[1], p[2] - p[1]>> : p \in
            { q \in edges \X edges :
                q[1] < q[2] /\ \A c \in edges : ~(q[1] < c /\ c < q[2]) } }

\* The ways ForEachParallel may split `count` elements.
Splits(count) == IF count = 0 THEN {{}} ELSE {Partitions(count, cuts) : cuts \in SUBSET (1 .. (count - 1))}

\* The elements of a partition.
Span(s, part) == SubSeq(s, part[1] + 1, part[1] + part[2])

(* ------------------------------ lights --------------------------------- *)
\* TestDrawable without the test of the visible-geometry trait.
TestDrawable_NoTrait(result, drawableIndex, inside, insideTest, lightMask, traits) ==
    IF scene[drawableIndex].lightMask \cap lightMask # {}
    THEN IF inside \/ insideTest
         THEN Append(result, DrawablePtr(drawableIndex))
         ELSE result
    ELSE result

\* TestDrawables of the point and spot light queries, for one drawable of
\* the range the octree hands over; insideTest is IsInsideFast of its box.
TestDrawable(result, drawableIndex, inside, insideTest, lightMask, traits) ==
    IF "DrawableVisibleGeometry" \in traits[drawableIndex]
    THEN IF scene[drawableIndex].lightMask \cap lightMask # {}
         THEN IF inside \/ insideTest
              THEN Append(result, DrawablePtr(drawableIndex))
              ELSE result
         ELSE result
    ELSE result

\* The drawables the octree hands to a volume query, in octree order.
QueryCandidates == [k \in 1 .. Cardinality({i \in DOMAIN scene : scene[i].vol # "outside"}) |->
    CHOOSE i \in DOMAIN scene :
        /\ scene[i].vol # "outside"
        /\ Cardinality({j \in DOMAIN scene : scene[j].vol # "outside" /\ j < i}) = k - 1]

RECURSIVE TestDrawables(_, _, _, _, _)
\* octree_->GetDrawables(query): TestDrawables over the candidates from the k-th on.
TestDrawables(result, candidates, k, lightMask, traits) ==
    IF k > Len(candidates)
    THEN result
    ELSE TestDrawables(
             TestDrawable(result, candidates[k], scene[candidates[k]].vol = "inside",
                          scene[candidates[k]].vol = "boxpass", lightMask, traits),
             candidates, k + 1, lightMask, traits)

RECURSIVE DirectionalLitGeometries(_, _, _, _)
\* visibleGeometries_.ForEach of the directional case, from the k-th geometry on.
DirectionalLitGeometries(result, geometries, k, lightMask) ==
    IF k > Len(geometries)
    THEN result
    ELSE DirectionalLitGeometries(
             IF scene[GetDrawableIndex(geometries[k])].lightMask \cap lightMask # {}
             THEN Append(result, geometries[k]) ELSE result,
             geometries, k + 1, lightMask)

\* CollectLitGeometries: the lit geometries appended to the light's list.
CollectLitGeometries(light, litGeometries) ==
    LET d == scene[GetDrawableIndex(light)]
    IN  CASE d.light.lightType = "LIGHT_SPOT" ->
                TestDrawables(litGeometries, QueryCandidates, 1, GetLightMaskEffective(d), traits_)
          [] d.light.lightType = "LIGHT_POINT" ->
                TestDrawables(litGeometries, QueryCandidates, 1, GetLightMaskEffective(d), traits_)
          [] d.light.lightType = "LIGHT_DIRECTIONAL" ->
                DirectionalLitGeometries(litGeometries, TVFlatten(visibleGeometries_), 1, d.lightMask)
          [] OTHER -> litGeometries

\* The per-pixel light budget AccumulateForwardLighting sets.
maxPixelLights_ == 1

\* Whether entry a of a light accumulator ranks before entry b:
\* importance first, then ascending scaled distance.
RanksBefore(a, b) == a[1] > b[1] \/ (a[1] = b[1] /\ a[2] <= b[2])

\* DrawableLightData::AccumulateLight: the ranked list with the light added,
\* cut to the budget.
AccumulateLight(lights, importance, distance, lightIndex) ==
    LET entry == <<importance, distance, lightIndex>>
        before == SelectSeq(lights, LAMBDA e : RanksBefore(e, entry))
        after == SelectSeq(lights, LAMBDA e : ~RanksBefore(e, entry))
        all == before \o <<entry>> \o after
    IN  SubSeq(all, 1, Min(Len(all), maxPixelLights_))

RECURSIVE AccumulateForwardLighting_NoImportance(_, _, _, _)
\* The loop with every light given the same importance.
AccumulateForwardLighting_NoImportance(lighting, lightIndex, geometries, k) ==
    IF k > Len(geometries)
    THEN lighting
    ELSE LET light == scene[GetDrawableIndex(visibleLights_[lightIndex + 1])].light
             drawableIndex == GetDrawableIndex(geometries[k])
         IN  AccumulateForwardLighting_NoImportance(
                 [lighting EXCEPT ![drawableIndex] =
                     AccumulateLight(@, 0, light.scaledDistance, lightIndex)],
                 lightIndex, geometries, k + 1)

RECURSIVE AccumulateForwardLighting(_, _, _, _)
\* The loop of AccumulateForwardLighting over the light's lit geometries.
AccumulateForwardLighting(lighting, lightIndex, geometries, k) ==
    IF k > Len(geometries)
    THEN lighting
    ELSE LET light == scene[GetDrawableIndex(visibleLights_[lightIndex + 1])].light
             drawableIndex == GetDrawableIndex(geometries[k])
         IN  AccumulateForwardLighting(
                 [lighting EXCEPT ![drawableIndex] =
                     AccumulateLight(@, light.importance, light.scaledDistance, lightIndex)],
                 lightIndex, geometries, k + 1)

(* ------------------- SceneBatchCollector::CollectSceneBatches ---------- *)
SceneBatch(drawable, drawableIndex, sourceBatchIndex, geometry, material) ==
    [ drawable_ |-> drawable, drawableIndex_ |-> drawableIndex,
      sourceBatchIndex_ |-> sourceBatchIndex, geometry_ |-> geometry, material_ |-> material ]

\* A value-initialised SceneBatch.
NewSceneBatch == SceneBatch(NULL, 0, 0, NullName, NullName)

\* vector::resize(n): the first n elements kept, new ones value-initialised.
Resize(s, n, new) == [k \in 1 .. n |-> IF k <= Len(s) THEN s[k] ELSE new]

RECURSIVE CollectUnlitRange(_, _, _, _)
\* The lambda of CollectSceneBatches on one partition, from its i-th batch on.
CollectUnlitRange(out, offset, batches, i) ==
    IF i >= Len(batches)
    THEN out
    ELSE LET intermediateBatch == batches[i + 1]
             drawable == intermediateBatch.geometry_
             sourceBatch == scene[GetDrawableIndex(drawable)].batches[intermediateBatch.sourceBatchIndex_ + 1]
             sceneBatch == SceneBatch(drawable, GetDrawableIndex(drawable),
                               intermediateBatch.sourceBatchIndex_, sourceBatch.geometry_,
                               IF sourceBatch.material_ # NullName
                               THEN sourceBatch.material_ ELSE DefaultMaterial)
         IN  CollectUnlitRange([out EXCEPT ![i + offset + 1] = sceneBatch], offset, batches, i + 1)

RECURSIVE CollectUnlitParts(_, _, _)
\* ForEachParallel over the partitions of a split; the lanes write disjoint slots.
CollectUnlitParts(out, flat, parts) ==
    IF parts = {}
    THEN out
    ELSE LET part == CHOOSE q \in parts : TRUE
         IN  CollectUnlitParts(CollectUnlitRange(out, part[1], Span(flat, part), 0),
                               flat, parts \ {part})

RECURSIVE CollectPasses(_, _, _)
\* The loop of CollectSceneBatches over passes_, from pass p on; ForEachParallel
\* cuts every pass's batches after the positions in `cuts`.
CollectPasses(passes, cuts, p) ==
    IF p > Len(passes)
    THEN passes
    ELSE LET passData == passes[p]
             flat == TVFlatten(passData.unlitBatches_)
             unlit == Resize(passData.unlitBaseSceneBatches_, Len(flat), NewSceneBatch)
             lit == Resize(passData.litBaseSceneBatches_, TVSize(passData.litBatches_), NewSceneBatch)
         IN  CollectPasses(
                 [passes EXCEPT ![p].unlitBaseSceneBatches_ =
                                    CollectUnlitParts(unlit, flat,
                                        Partitions(Len(flat), cuts \cap (1 .. (Len(flat) - 1)))),
                                ![p].litBaseSceneBatches_ = lit],
                 cuts, p + 1)

(* ----------------------- SceneBatchCollector: steps -------------------- *)
QUALITY_LOW == 0

\* The list of drawables handed to UpdateAndCollectSourceBatches: the scene's, by index.
FrameDrawables == [k \in 1 .. Cardinality(DOMAIN scene) |-> k - 1]

InitializeFrame ==
    /\ pc = "InitializeFrame"
    /\ materialQuality_' = IF quality.low THEN QUALITY_LOW ELSE quality.renderer
    /\ visibleGeometries_' = TVClear
    /\ visibleLightsTemp_' = TVClear
    /\ sceneZRange_' = [t \in Threads |-> NULL]
    /\ traits_' = [i \in DOMAIN scene |-> {}]
    /\ zRange_' = [i \in DOMAIN scene |-> InvalidZRange]
    /\ drawableLighting_' = [i \in DOMAIN scene |->
                                IF i \in DOMAIN drawableLighting_ THEN drawableLighting_[i] ELSE <<>>]
    /\ pc' = "InitializePasses"
    /\ UNCHANGED << scene, passInput, quality, passes_, visibleLights_, cachedLightData_,
                    visibleLightsData_, work >>
    /\ UNCHANGED scenePassVars

\* The loop body of InitializePasses for pass i of the resized passes_.
InitializePass(passData, desc) ==
    LET named == [passData EXCEPT !.type_ = desc.type_,
                                  !.basePassIndex_ = desc.basePassIndex_,
                                  !.firstLightPassIndex_ = desc.firstLightPassIndex_,
                                  !.additionalLightPassIndex_ = desc.additionalLightPassIndex_]
    IN  IF ~IsValid(named) THEN named ELSE PassDataClear(named)

\* InitializePasses. An invalid description reaches assert(0): a build with
\* assertions stops there, a build without them goes on to the next pass.
InitializePasses ==
    /\ pc = "InitializePasses"
    /\ passes_' = [i \in 1 .. Len(passInput) |->
                     InitializePass(IF i <= Len(passes_) THEN passes_[i] ELSE NewPassData,
                                    passInput[i])]
    /\ \E assertions \in BOOLEAN :
          pc' = IF assertions /\ \E i \in 1 .. Len(passInput) : ~IsValid(passes_'[i])
                THEN "Aborted"
                ELSE "UpdateAndCollectSourceBatches"
    /\ UNCHANGED << scene, passInput, quality, materialQuality_, visibleGeometries_,
                    visibleLightsTemp_, visibleLights_, sceneZRange_, traits_, zRange_,
                    drawableLighting_, cachedLightData_, visibleLightsData_, work >>
    /\ UNCHANGED scenePassVars

\* UpdateAndCollectSourceBatches up to the start of its lanes: ForEachParallel
\* splits the drawables into partitions.
UpdateAndCollectSourceBatches ==
    /\ pc = "UpdateAndCollectSourceBatches"
    /\ \E split \in Splits(Len(FrameDrawables)) : work' = split
    /\ pc' = "ForEachDrawable"
    /\ UNCHANGED << scene, passInput, quality, materialQuality_, passes_, visibleGeometries_,
                    visibleLightsTemp_, visibleLights_, sceneZRange_, traits_, zRange_,
                    drawableLighting_, cachedLightData_, visibleLightsData_ >>
    /\ UNCHANGED scenePassVars

\* The queued work item of the least offset.
FirstWork == CHOOSE part \in work : \A other \in work : part[1] <= other[1]

\* One lane runs the lambda on one partition; the lane that ends the
\* parallel phase goes on to copy the visible lights. The partitions are
\* taken in queue order; the lanes write disjoint drawables and their own
\* collections, so the order in which they finish changes nothing.
UpdateAndCollectLane ==
    /\ pc = "ForEachDrawable"
    /\ \E threadIndex \in Threads :
          LET part == FirstWork
              st == UpdateAndCollectSourceBatchesForThread(
                        LaneState, threadIndex, Span(FrameDrawables, part), 1)
          IN  /\ traits_' = st.traits_
              /\ zRange_' = st.zRange_
              /\ sceneZRange_' = st.sceneZRange_
              /\ visibleGeometries_' = st.visibleGeometries_
              /\ visibleLightsTemp_' = st.visibleLightsTemp_
              /\ passes_' = st.passes_
              /\ drawableLighting_' = st.drawableLighting_
              /\ work' = work \ {part}
              /\ IF work' = {}
                 THEN /\ visibleLights_' = TVFlatten(st.visibleLightsTemp_)
                      /\ pc' = "ProcessVisibleLights"
                 ELSE UNCHANGED << visibleLights_, pc >>
    /\ UNCHANGED << scene, passInput, quality, materialQuality_, cachedLightData_,
                    visibleLightsData_ >>
    /\ UNCHANGED scenePassVars

\* ProcessVisibleLights up to the start of its work items: the light data of
\* every visible light is found or made in the cache, and cleared.
ProcessVisibleLights ==
    /\ pc = "ProcessVisibleLights"
    /\ cachedLightData_' = [l \in DOMAIN cachedLightData_ \cup Range(visibleLights_) |->
                               IF l \in Range(visibleLights_) THEN <<>> ELSE cachedLightData_[l]]
    /\ visibleLightsData_' = visibleLights_
    /\ IF Len(visibleLights_) = 0
       THEN work' = {} /\ pc' = "CollectSceneBatches"
       ELSE work' = 0 .. (Len(visibleLights_) - 1) /\ pc' = "ProcessLights"
    /\ UNCHANGED << scene, passInput, quality, materialQuality_, passes_, visibleGeometries_,
                    visibleLightsTemp_, visibleLights_, sceneZRange_, traits_, zRange_,
                    drawableLighting_ >>
    /\ UNCHANGED scenePassVars

\* A work item after which the lights are accumulated although other work
\* items have not run.
ProcessLightThreaded_NoBarrier ==
    /\ pc = "ProcessLights"
    /\ \E i \in work :
          LET light == visibleLights_[i + 1]
              lightData == visibleLightsData_[i + 1]
          IN  /\ cachedLightData_' =
                    [cachedLightData_ EXCEPT ![lightData] = CollectLitGeometries(light, @)]
              /\ work' = 0 .. (Len(visibleLights_) - 1)
              /\ pc' = "AccumulateForwardLighting"
    /\ UNCHANGED << scene, passInput, quality, materialQuality_, passes_, visibleGeometries_,
                    visibleLightsTemp_, visibleLights_, sceneZRange_, traits_, zRange_,
                    drawableLighting_, visibleLightsData_ >>
    /\ UNCHANGED scenePassVars

\* One work item of ProcessVisibleLights: ProcessLightThreaded for light i.
\* After the last one the lights are accumulated, from the first on.
ProcessLightThreaded ==
    /\ pc = "ProcessLights"
    /\ \E i \in work :
          LET light == visibleLights_[i + 1]
              lightData == visibleLightsData_[i + 1]
          IN  /\ cachedLightData_' =
                    [cachedLightData_ EXCEPT ![lightData] = CollectLitGeometries(light, @)]
              /\ IF work = {i}
                 THEN work' = 0 .. (Len(visibleLights_) - 1) /\ pc' = "AccumulateForwardLighting"
                 ELSE work' = work \ {i} /\ pc' = pc
    /\ UNCHANGED << scene, passInput, quality, materialQuality_, passes_, visibleGeometries_,
                    visibleLightsTemp_, visibleLights_, sceneZRange_, traits_, zRange_,
                    drawableLighting_, visibleLightsData_ >>
    /\ UNCHANGED scenePassVars

\* AccumulateForwardLighting(i) of the closing loop of ProcessVisibleLights,
\* for the next light in index order.
AccumulateLighting ==
    /\ pc = "AccumulateForwardLighting"
    /\ LET lightIndex == CHOOSE i \in work : \A j \in work : i <= j
       IN  /\ drawableLighting_' =
                 AccumulateForwardLighting(drawableLighting_, lightIndex,
                     cachedLightData_[visibleLightsData_[lightIndex + 1]], 1)
           /\ work' = work \ {lightIndex}
           /\ pc' = IF work' = {} THEN "CollectSceneBatches" ELSE pc
    /\ UNCHANGED << scene, passInput, quality, materialQuality_, passes_, visibleGeometries_,
                    visibleLightsTemp_, visibleLights_, sceneZRange_, traits_, zRange_,
                    cachedLightData_, visibleLightsData_ >>
    /\ UNCHANGED scenePassVars

\* The largest number of unlit intermediate batches of a pass.
MaxUnlitSize ==
    LET sizes == {TVSize(passes_[p].unlitBatches_) : p \in 1 .. Len(passes_)} \cup {0}
    IN  CHOOSE n \in sizes : \A m \in sizes : m <= n

\* SceneBatchCollector::CollectSceneBatches.
CollectSceneBatches ==
    /\ pc = "CollectSceneBatches"
    /\ \E cuts \in SUBSET (1 .. (MaxUnlitSize - 1)) :
          passes_' = CollectPasses(passes_, cuts, 1)
    /\ pc' = "Done"
    /\ UNCHANGED << scene, passInput, quality, materialQuality_, visibleGeometries_,
                    visibleLightsTemp_, visibleLights_, sceneZRange_, traits_, zRange_,
                    drawableLighting_, cachedLightData_, visibleLightsData_, work >>
    /\ UNCHANGED scenePassVars

CollectorNext ==
    \/ InitializeFrame
    \/ InitializePasses
    \/ UpdateAndCollectSourceBatches
    \/ UpdateAndCollectLane
    \/ ProcessVisibleLights
    \/ ProcessLightThreaded
    \/ AccumulateLighting
    \/ CollectSceneBatches

(* ------------------------------ ScenePass ------------------------------ *)
\* The pass indices the scene pass is constructed with.
unlitBasePassIndex_ == BASE_PASS
litBasePassIndex_ == LITBASE_PASS
lightPassIndex_ == LIGHT_PASS

\* BaseSceneBatch{lightIndex, intermediateBatch, defaultMaterial}: the final
\* batch of an intermediate batch, its pipeline state not yet resolved.
BaseSceneBatch(lightIndex, intermediateBatch, defaultMaterial) ==
    LET drawable == intermediateBatch.geometry_
        sourceBatch == scene[GetDrawableIndex(drawable)].batches[intermediateBatch.sourceBatchIndex_ + 1]
    IN  [ lightIndex_ |-> lightIndex,
          drawableIndex_ |-> GetDrawableIndex(drawable),
          sourceBatchIndex_ |-> intermediateBatch.sourceBatchIndex_,
          drawable_ |-> drawable,
          geometry_ |-> sourceBatch.geometry_,
          material_ |-> IF sourceBatch.material_ # NullName
                        THEN sourceBatch.material_ ELSE defaultMaterial,
          pass_ |-> intermediateBatch.basePass_,
          pipelineState_ |-> NULL ]

\* A value-initialised BaseSceneBatch, as resize makes it.
NewBaseSceneBatch ==
    [ lightIndex_ |-> M_MAX_UNSIGNED, drawableIndex_ |-> 0, sourceBatchIndex_ |-> 0,
      drawable_ |-> NULL, geometry_ |-> NullName, material_ |-> NullName,
      pass_ |-> NULL, pipelineState_ |-> NULL ]

\* ScenePipelineStateKey{sceneBatch, lightHash}.
ScenePipelineStateKey(sceneBatch, lightHash) ==
    << sceneBatch.geometry_, sceneBatch.material_, sceneBatch.pass_,
       sceneBatch.sourceBatchIndex_, lightHash >>

\* ScenePipelineStateContext: what the creation callback is given besides the key.
ScenePipelineStateContext(drawable, light) == [drawable_ |-> drawable, light_ |-> light]

\* ScenePipelineStateCache::GetPipelineState: the cached state, null on a miss.
GetPipelineState(cache, key) == IF key \in DOMAIN cache THEN cache[key] ELSE NULL

\* The state of the scene pass that CollectSceneBatches works on.
PassState ==
    [ unlitBaseBatches_ |-> unlitBaseBatches_, litBaseBatches_ |-> litBaseBatches_,
      lightBatches_ |-> lightBatches_, unlitBaseBatchesDirty_ |-> unlitBaseBatchesDirty_,
      litBaseBatchesDirty_ |-> litBaseBatchesDirty_, lightBatchesDirty_ |-> lightBatchesDirty_,
      unlitPipelineStateCache_ |-> unlitPipelineStateCache_,
      litPipelineStateCache_ |-> litPipelineStateCache_,
      additionalLightPipelineStateCache_ |-> additionalLightPipelineStateCache_,
      created |-> created, slotWrites |-> slotWrites ]

\* Calls of the creation callback so far for a key of a cache.
NumCreated(calls, cacheName, key) ==
    IF <<cacheName, key>> \in DOMAIN calls THEN calls[<<cacheName, key>>] ELSE 0

\* The creation callback is called for the key and its result is stored:
\* every call makes a new pipeline state, told apart by its serial number,
\* or no state for a material the callback cannot create a state for.
CreatePipelineState(st, cacheName, key, context) ==
    LET serial == NumCreated(st.created, cacheName, key) + 1
        state == IF key[2] \in collectArgs.callback
                 THEN NULL
                 ELSE [key_ |-> key, light_ |-> context.light_, serial_ |-> serial]
        cache == st[cacheName]
    IN  [st EXCEPT
            ![cacheName] = [k \in DOMAIN cache \cup {key} |-> IF k = key THEN state ELSE cache[k]],
            !.created = [c \in DOMAIN st.created \cup {<<cacheName, key>>} |->
                            IF c = <<cacheName, key>> THEN serial ELSE st.created[c]]]

\* ScenePipelineStateCache::GetOrCreatePipelineState: the cached state of the
\* key; on a miss the callback creates it. The state is then st[cacheName][key].
GetOrCreatePipelineState(st, cacheName, key, context) ==
    IF GetPipelineState(st[cacheName], key) # NULL
    THEN st
    ELSE CreatePipelineState(st, cacheName, key, context)

\* The lookup of a lane that creates on a miss.
LaneGetPipelineState_Creating(st, cacheName, key) ==
    LET st1 == GetOrCreatePipelineState(st, cacheName, key, ScenePipelineStateContext(NULL, NULL))
    IN  [st |-> st1, pipelineState_ |-> st1[cacheName][key]]

\* The lookup inside the ForEachParallel lambdas: GetPipelineState, which
\* leaves the cache as it is.
LaneGetPipelineState(st, cacheName, key) ==
    [st |-> st, pipelineState_ |-> GetPipelineState(st[cacheName], key)]

\* A missed batch that is not recorded.
InsertIfDirty_Never(dirty, threadIndex, pipelineState, value) == dirty

\* if (!pipelineState_) dirty.Insert(threadIndex, value).
InsertIfDirty(dirty, threadIndex, pipelineState, value) ==
    IF pipelineState = NULL THEN TVInsert(dirty, threadIndex, value) ELSE dirty

\* A resolution that calls the creation callback without looking up the key.
ResolvePipelineState_AlwaysCreate(st, cacheName, key, context) ==
    CreatePipelineState(st, cacheName, key, context)

\* The call of the serial resolve loops for one dirty batch.
ResolvePipelineState(st, cacheName, key, context) ==
    GetOrCreatePipelineState(st, cacheName, key, context)

\* The slot of batch i of a partition, without the partition's offset.
UnlitSlot_NoOffset(i, offset) == i

\* unlitBaseBatches_[i + offset].
UnlitSlot(i, offset) == i + offset

RECURSIVE CollectUnlitBatchesForThread(_, _, _, _, _)
\* The lambda of CollectUnlitBatches on one partition, from its i-th batch on.
CollectUnlitBatchesForThread(st, threadIndex, offset, batches, i) ==
    IF i >= Len(batches)
    THEN st
    ELSE LET intermediateBatch == batches[i + 1]
             slot == UnlitSlot(i, offset)
             sceneBatch == BaseSceneBatch(M_MAX_UNSIGNED, intermediateBatch, DefaultMaterial)
             found == LaneGetPipelineState(st, "unlitPipelineStateCache_",
                                           ScenePipelineStateKey(sceneBatch, 0))
             st1 == [found.st EXCEPT
                        !.unlitBaseBatches_[slot + 1] =
                            [sceneBatch EXCEPT !.pipelineState_ = found.pipelineState_],
                        !.slotWrites[slot + 1] = @ + 1,
                        !.unlitBaseBatchesDirty_ =
                            InsertIfDirty(@, threadIndex, found.pipelineState_, slot)]
         IN  CollectUnlitBatchesForThread(st1, threadIndex, offset, batches, i + 1)

RECURSIVE ResolveUnlitBaseBatches(_, _, _)
\* unlitBaseBatchesDirty_.ForEach of CollectUnlitBatches, from the k-th dirty batch on.
ResolveUnlitBaseBatches(st, dirty, k) ==
    IF k > Len(dirty)
    THEN st
    ELSE LET slot == dirty[k]
             sceneBatch == st.unlitBaseBatches_[slot + 1]
             key == ScenePipelineStateKey(sceneBatch, 0)
             st1 == ResolvePipelineState(st, "unlitPipelineStateCache_", key,
                        ScenePipelineStateContext(sceneBatch.drawable_, NULL))
             st2 == [st1 EXCEPT !.unlitBaseBatches_[slot + 1].pipelineState_ =
                                    st1.unlitPipelineStateCache_[key]]
         IN  ResolveUnlitBaseBatches(st2, dirty, k + 1)

\* SceneLight::GetPipelineStateHash of sceneLights[lightIndex].
GetPipelineStateHash(lightIndex) == collectArgs.sceneLights[lightIndex + 1].hash_

\* sceneLights[lightIndex] as a pointer.
SceneLightPtr(lightIndex) == <<lightIndex>>

\* The light indices of drawableLighting[drawableIndex].GetPixelLights(), in rank order.
GetPixelLights(drawableIndex) == collectArgs.drawableLighting[drawableIndex]

\* mainLightHash of CollectLitBatches.
MainLightHash ==
    IF collectArgs.mainLightIndex # M_MAX_UNSIGNED
    THEN GetPipelineStateHash(collectArgs.mainLightIndex)
    ELSE 0

RECURSIVE AddLightBatches(_, _, _, _, _, _)
\* The loop over the pixel lights of one lit batch, from light j on.
AddLightBatches(st, threadIndex, sceneBatch, intermediateBatch, pixelLights, j) ==
    IF j >= Len(pixelLights)
    THEN st
    ELSE LET lightIndex == pixelLights[j + 1]
             lightHash == GetPipelineStateHash(lightIndex)
             copied == [sceneBatch EXCEPT !.lightIndex_ = lightIndex,
                                          !.pass_ = intermediateBatch.additionalPass_]
             found == LaneGetPipelineState(st, "additionalLightPipelineStateCache_",
                                           ScenePipelineStateKey(copied, lightHash))
             lightBatch == [copied EXCEPT !.pipelineState_ = found.pipelineState_]
             batchIndex == Len(found.st.lightBatches_[threadIndex])
             st1 == [found.st EXCEPT
                        !.lightBatches_ = TVInsert(@, threadIndex, lightBatch),
                        !.lightBatchesDirty_ =
                            InsertIfDirty(@, threadIndex, lightBatch.pipelineState_, batchIndex)]
         IN  AddLightBatches(st1, threadIndex, sceneBatch, intermediateBatch, pixelLights, j + 1)

RECURSIVE CollectLitBatchesForThread(_, _, _, _, _)
\* The lambda of CollectLitBatches on one partition, from its i-th batch on.
\* The pixel lights are read at the drawable index the output slot holds
\* before the slot is assigned.
CollectLitBatchesForThread(st, threadIndex, offset, batches, i) ==
    IF i >= Len(batches)
    THEN st
    ELSE LET intermediateBatch == batches[i + 1]
             slot == i + offset
             pixelLights == GetPixelLights(st.litBaseBatches_[slot + 1].drawableIndex_)
             hasLitBase == Len(pixelLights) > 0 /\ pixelLights[1] = collectArgs.mainLightIndex
             baseLightIndex == IF hasLitBase THEN collectArgs.mainLightIndex ELSE M_MAX_UNSIGNED
             baseLightHash == IF hasLitBase THEN MainLightHash ELSE 0
             constructed == BaseSceneBatch(baseLightIndex, intermediateBatch, DefaultMaterial)
             found == LaneGetPipelineState(st, "litPipelineStateCache_",
                                           ScenePipelineStateKey(constructed, baseLightHash))
             sceneBatch == [constructed EXCEPT !.pipelineState_ = found.pipelineState_]
             st1 == [found.st EXCEPT
                        !.litBaseBatches_[slot + 1] = sceneBatch,
                        !.litBaseBatchesDirty_ =
                            InsertIfDirty(@, threadIndex, sceneBatch.pipelineState_, slot)]
             st2 == AddLightBatches(st1, threadIndex, sceneBatch, intermediateBatch,
                                    pixelLights, IF hasLitBase THEN 1 ELSE 0)
         IN  CollectLitBatchesForThread(st2, threadIndex, offset, batches, i + 1)

RECURSIVE ResolveLitBaseBatches(_, _, _)
\* "Resolve base pipeline states", from the k-th dirty batch on: the key and
\* the light of every dirty batch are those of the main light, when there is one.
ResolveLitBaseBatches(st, dirty, k) ==
    IF k > Len(dirty)
    THEN st
    ELSE LET slot == dirty[k]
             sceneBatch == st.litBaseBatches_[slot + 1]
             light == IF collectArgs.mainLightIndex # M_MAX_UNSIGNED
                      THEN SceneLightPtr(collectArgs.mainLightIndex) ELSE NULL
             baseLightHash == IF collectArgs.mainLightIndex # M_MAX_UNSIGNED
                              THEN MainLightHash ELSE 0
             baseKey == ScenePipelineStateKey(sceneBatch, baseLightHash)
             st1 == ResolvePipelineState(st, "litPipelineStateCache_", baseKey,
                        ScenePipelineStateContext(sceneBatch.drawable_, light))
             st2 == [st1 EXCEPT !.litBaseBatches_[slot + 1].pipelineState_ =
                                    st1.litPipelineStateCache_[baseKey]]
         IN  ResolveLitBaseBatches(st2, dirty, k + 1)

RECURSIVE ResolveLightBatchesOfThread(_, _, _)
\* "Resolve light pipeline states" for the dirty batches of one lane, from the k-th on.
ResolveLightBatchesOfThread(st, threadIndex, k) ==
    IF k > Len(st.lightBatchesDirty_[threadIndex])
    THEN st
    ELSE LET batchIndex == st.lightBatchesDirty_[threadIndex][k]
             lightBatch == st.lightBatches_[threadIndex][batchIndex + 1]
             lightKey == ScenePipelineStateKey(lightBatch, GetPipelineStateHash(lightBatch.lightIndex_))
             st1 == ResolvePipelineState(st, "additionalLightPipelineStateCache_", lightKey,
                        ScenePipelineStateContext(lightBatch.drawable_,
                                                  SceneLightPtr(lightBatch.lightIndex_)))
             st2 == [st1 EXCEPT !.lightBatches_[threadIndex][batchIndex + 1].pipelineState_ =
                                    st1.additionalLightPipelineStateCache_[lightKey]]
         IN  ResolveLightBatchesOfThread(st2, threadIndex, k + 1)

RECURSIVE ResolveLightBatches(_, _)
\* lightBatchesDirty_.ForEach: lane after lane, from lane threadIndex on.
ResolveLightBatches(st, threadIndex) ==
    IF threadIndex \notin Threads
    THEN st
    ELSE ResolveLightBatches(ResolveLightBatchesOfThread(st, threadIndex, 1), threadIndex + 1)

\* The partition of the scene pass's running phase with the least offset.
FirstPassWork == CHOOSE part \in passWork : \A other \in passWork : part[1] <= other[1]

\* The members of the scene pass become those of st.
StorePassState(st) ==
    /\ unlitBaseBatches_' = st.unlitBaseBatches_
    /\ litBaseBatches_' = st.litBaseBatches_
    /\ lightBatches_' = st.lightBatches_
    /\ unlitBaseBatchesDirty_' = st.unlitBaseBatchesDirty_
    /\ litBaseBatchesDirty_' = st.litBaseBatchesDirty_
    /\ lightBatchesDirty_' = st.lightBatchesDirty_
    /\ unlitPipelineStateCache_' = st.unlitPipelineStateCache_
    /\ litPipelineStateCache_' = st.litPipelineStateCache_
    /\ additionalLightPipelineStateCache_' = st.additionalLightPipelineStateCache_
    /\ created' = st.created
    /\ slotWrites' = st.slotWrites

\* ScenePass::BeginFrame.
BeginFrame ==
    /\ passPc = "BeginFrame"
    /\ frame < MaxFrames
    /\ frame' = frame + 1
    /\ unlitBatches_' = TVClear
    /\ litBatches_' = TVClear
    /\ unlitBaseBatchesDirty_' = TVClear
    /\ litBaseBatchesDirty_' = TVClear
    /\ lightBatchesDirty_' = TVClear
    /\ unlitBaseBatches_' = <<>>
    /\ litBaseBatches_' = <<>>
    /\ lightBatches_' = TVClear
    /\ slotWrites' = <<>>
    /\ passPc' = "AddSourceBatch"
    /\ UNCHANGED << collectArgs, unlitPipelineStateCache_, litPipelineStateCache_,
                    additionalLightPipelineStateCache_, passWork, created >>
    /\ UNCHANGED collectorVars

\* ScenePass::AddSourceBatch(drawable, sourceBatchIndex, technique) on the
\* lane workerThreadIndex. A technique with a light pass and no base pass
\* reaches assert(0): a build with assertions stops there, a build without
\* them returns false.
AddSourceBatchCall(drawable, sourceBatchIndex, technique, workerThreadIndex, assertions) ==
    LET unlitBasePass == GetPass(technique, unlitBasePassIndex_)
        litBasePass == GetPass(technique, litBasePassIndex_)
        lightPass == GetPass(technique, lightPassIndex_)
    IN  IF lightPass # NULL
        THEN IF litBasePass # NULL
             THEN /\ litBatches_' = TVInsert(litBatches_, workerThreadIndex,
                        IntermediateSceneBatch(drawable, sourceBatchIndex, litBasePass, lightPass))
                  /\ UNCHANGED << unlitBatches_, passPc >>
             ELSE IF unlitBasePass # NULL
             THEN /\ unlitBatches_' = TVInsert(unlitBatches_, workerThreadIndex,
                        IntermediateSceneBatch(drawable, sourceBatchIndex, unlitBasePass, NULL))
                  /\ litBatches_' = TVInsert(litBatches_, workerThreadIndex,
                        IntermediateSceneBatch(drawable, sourceBatchIndex, NULL, lightPass))
                  /\ UNCHANGED passPc
             ELSE /\ passPc' = IF assertions THEN "Aborted" ELSE passPc
                  /\ UNCHANGED << unlitBatches_, litBatches_ >>
        ELSE /\ unlitBatches_' = TVInsert(unlitBatches_, workerThreadIndex,
                    IntermediateSceneBatch(drawable, sourceBatchIndex, unlitBasePass, NULL))
             /\ UNCHANGED << litBatches_, passPc >>

\* The source batch has an intermediate batch in a bucket of this frame.
AddedThisFrame(drawable, sourceBatchIndex) ==
    \E batch \in Range(TVFlatten(unlitBatches_)) \cup Range(TVFlatten(litBatches_)) :
        batch.geometry_ = drawable /\ batch.sourceBatchIndex_ = sourceBatchIndex

\* One call of AddSourceBatch of the frame: for a source batch of a geometry
\* of the scene, not yet added in this frame, and a technique of its material.
AddSourceBatch ==
    /\ passPc = "AddSourceBatch"
    /\ \E drawableIndex \in DOMAIN scene, workerThreadIndex \in Threads, assertions \in BOOLEAN :
          /\ "GEOMETRY" \in scene[drawableIndex].flags
          /\ \E sourceBatchIndex \in 0 .. (Len(scene[drawableIndex].batches) - 1) :
                LET sourceBatch == scene[drawableIndex].batches[sourceBatchIndex + 1]
                    material == IF sourceBatch.material_ # NullName
                                THEN sourceBatch.material_ ELSE DefaultMaterial
                IN  \E entry \in Range(Materials[material]) :
                       /\ entry.technique_ # NullName
                       /\ ~AddedThisFrame(DrawablePtr(drawableIndex), sourceBatchIndex)
                       /\ AddSourceBatchCall(DrawablePtr(drawableIndex), sourceBatchIndex,
                                             entry.technique_, workerThreadIndex, assertions)
    /\ UNCHANGED << collectArgs, frame, unlitBaseBatchesDirty_, litBaseBatchesDirty_,
                    lightBatchesDirty_, unlitBaseBatches_, litBaseBatches_, lightBatches_,
                    unlitPipelineStateCache_, litPipelineStateCache_,
                    additionalLightPipelineStateCache_, passWork, created, slotWrites >>
    /\ UNCHANGED collectorVars

\* ScenePass::CollectSceneBatches up to the start of the lanes of
\* CollectUnlitBatches: the unlit list is resized and ForEachParallel splits
\* the unlit intermediate batches into partitions.
ScenePassCollectSceneBatches ==
    /\ passPc = "AddSourceBatch"
    /\ unlitBaseBatches_' = Resize(unlitBaseBatches_, TVSize(unlitBatches_), NewBaseSceneBatch)
    /\ slotWrites' = [k \in 1 .. TVSize(unlitBatches_) |-> 0]
    /\ \E split \in Splits(TVSize(unlitBatches_)) : passWork' = split
    /\ passPc' = IF TVSize(unlitBatches_) = 0 THEN "ResolveUnlitBatches" ELSE "CollectUnlitBatches"
    /\ UNCHANGED << collectArgs, frame, unlitBatches_, litBatches_, unlitBaseBatchesDirty_,
                    litBaseBatchesDirty_, lightBatchesDirty_, litBaseBatches_, lightBatches_,
                    unlitPipelineStateCache_, litPipelineStateCache_,
                    additionalLightPipelineStateCache_, created >>
    /\ UNCHANGED collectorVars

\* One lane runs the lambda of CollectUnlitBatches on one partition. The
\* partitions are taken in queue order.
CollectUnlitBatchesLane ==
    /\ passPc = "CollectUnlitBatches"
    /\ \E threadIndex \in Threads :
          LET part == FirstPassWork
          IN  /\ StorePassState(CollectUnlitBatchesForThread(PassState, threadIndex, part[1],
                                    Span(TVFlatten(unlitBatches_), part), 0))
              /\ passWork' = passWork \ {part}
              /\ passPc' = IF passWork' = {} THEN "ResolveUnlitBatches" ELSE passPc
    /\ UNCHANGED << collectArgs, frame, unlitBatches_, litBatches_ >>
    /\ UNCHANGED collectorVars

\* The rest of CollectUnlitBatches on the calling thread, after every lane
\* has finished: the dirty unlit batches are resolved. Then CollectLitBatches
\* up to the start of its lanes.
ResolveUnlitBatches ==
    /\ passPc = "ResolveUnlitBatches"
    /\ LET st == ResolveUnlitBaseBatches(PassState, TVFlatten(unlitBaseBatchesDirty_), 1)
       IN  StorePassState([st EXCEPT !.litBaseBatches_ =
                               Resize(@, TVSize(litBatches_), NewBaseSceneBatch)])
    /\ \E split \in Splits(TVSize(litBatches_)) : passWork' = split
    /\ passPc' = IF TVSize(litBatches_) = 0 THEN "ResolveLitBatches" ELSE "CollectLitBatches"
    /\ UNCHANGED << collectArgs, frame, unlitBatches_, litBatches_ >>
    /\ UNCHANGED collectorVars

\* One lane runs the lambda of CollectLitBatches on one partition.
CollectLitBatchesLane ==
    /\ passPc = "CollectLitBatches"
    /\ \E threadIndex \in Threads :
          LET part == FirstPassWork
          IN  /\ StorePassState(CollectLitBatchesForThread(PassState, threadIndex, part[1],
                                    Span(TVFlatten(litBatches_), part), 0))
              /\ passWork' = passWork \ {part}
              /\ passPc' = IF passWork' = {} THEN "ResolveLitBatches" ELSE passPc
    /\ UNCHANGED << collectArgs, frame, unlitBatches_, litBatches_ >>
    /\ UNCHANGED collectorVars

\* The rest of CollectLitBatches on the calling thread: the dirty base
\* batches, then the dirty light batches, are resolved, and
\* CollectSceneBatches returns.
ResolveLitBatches ==
    /\ passPc = "ResolveLitBatches"
    /\ StorePassState(ResolveLightBatches(
            ResolveLitBaseBatches(PassState, TVFlatten(litBaseBatchesDirty_), 1), 0))
    /\ passPc' = "BeginFrame"
    /\ UNCHANGED << collectArgs, frame, unlitBatches_, litBatches_, passWork >>
    /\ UNCHANGED collectorVars

ScenePassNext ==
    \/ BeginFrame
    \/ AddSourceBatch
    \/ ScenePassCollectSceneBatches
    \/ CollectUnlitBatchesLane
    \/ ResolveUnlitBatches
    \/ CollectLitBatchesLane
    \/ ResolveLitBatches

\* The scene pass as constructed, before its first frame.
ScenePassConstructed ==
    /\ passPc = "BeginFrame"
    /\ frame = 0
    /\ unlitBatches_ = TVClear
    /\ litBatches_ = TVClear
    /\ unlitBaseBatchesDirty_ = TVClear
    /\ litBaseBatchesDirty_ = TVClear
    /\ lightBatchesDirty_ = TVClear
    /\ unlitBaseBatches_ = <<>>
    /\ litBaseBatches_ = <<>>
    /\ lightBatches_ = TVClear
    /\ unlitPipelineStateCache_ = <<>>
    /\ litPipelineStateCache_ = <<>>
    /\ additionalLightPipelineStateCache_ = <<>>
    /\ passWork = {}
    /\ created = <<>>
    /\ slotWrites = <<>>

\* A scene light of the given pipeline-state hash.
SceneLight(hash) == [hash_ |-> hash]

\* CollectSceneBatches(mainLightIndex, sceneLights, drawableLighting, camera,
\* callback): the callback is the set of materials it returns no pipeline
\* state for, here none.
CollectArgs(mainLightIndex, lights, lighting) ==
    [ mainLightIndex |-> mainLightIndex, sceneLights |-> lights, drawableLighting |-> lighting,
      callback |-> {} ]

\* The arguments of a scene without lights.
NoCollectArgs == CollectArgs(M_MAX_UNSIGNED, <<>>, <<>>)

\* The collector as constructed, before its first frame.
CollectorInit(scenes, passInputs, qualities) ==
    /\ scene \in scenes
    /\ passInput \in passInputs
    /\ quality \in qualities
    /\ pc = "InitializeFrame"
    /\ materialQuality_ = QUALITY_LOW
    /\ passes_ = <<>>
    /\ visibleGeometries_ = TVClear
    /\ visibleLightsTemp_ = TVClear
    /\ visibleLights_ = <<>>
    /\ sceneZRange_ = [t \in Threads |-> NULL]
    /\ traits_ = <<>>
    /\ zRange_ = <<>>
    /\ drawableLighting_ = <<>>
    /\ cachedLightData_ = <<>>
    /\ visibleLightsData_ = <<>>
    /\ work = {}

\* The scenes of up to MaxDrawables drawables of the given kinds.
ScenesOf(kinds) == UNION {[0 .. (n - 1) -> kinds] : n \in 1 .. MaxDrawables}

(* ------------------------- scenes and passes --------------------------- *)
ForwardLitBasePass == PassDesc("ForwardLitBase", BASE_PASS, LITBASE_PASS, LIGHT_PASS)
UnlitPass == PassDesc("Unlit", BASE_PASS, M_MAX_UNSIGNED, M_MAX_UNSIGNED)

DefaultQuality == [renderer |-> 2, low |-> FALSE]

\* <<draw distance, distance>>: no draw distance, within it, beyond it.
DrawDistances == {<<0, 1>>, <<3, 2>>, <<3, 5>>}

\* Geometries, lights and zones at every draw distance; lights black or
\* not, baked or not.
VisibilityKinds ==
    {Geometry(dd[1], dd[2], {1}, <<SourceBatch("geoA", "matLit")>>, "outside") : dd \in DrawDistances}
    \cup {Light(dd[1], dd[2], {1}, LightProps("LIGHT_DIRECTIONAL", black, baked, 0, 1)) :
            dd \in {<<0, 1>>, <<3, 5>>}, black \in BOOLEAN, baked \in BOOLEAN}
    \cup {Zone(dd[1], dd[2]) : dd \in {<<0, 1>>, <<3, 5>>}}

InitVisibility ==
    /\ CollectorInit(ScenesOf(VisibilityKinds), {<<ForwardLitBasePass>>}, {DefaultQuality})
    /\ collectArgs = NoCollectArgs
    /\ ScenePassConstructed

\* The collector over scenes that vary what is visible.
SpecVisibility == InitVisibility /\ [][CollectorNext]_vars

(* ------------------------------ claims --------------------------------- *)
\* UpdateAndCollectSourceBatches has returned.
AfterCollection ==
    pc \in {"ProcessVisibleLights", "ProcessLights", "AccumulateForwardLighting",
            "CollectSceneBatches", "Done"}

ExceedsDrawDistance(d) == d.drawDistance > 0 /\ d.distance > d.drawDistance

\* How often x occurs in sequence s.
Count(s, x) == Cardinality({i \in DOMAIN s : s[i] = x})

\* C1: after UpdateAndCollectSourceBatches, however the drawables were split
\* into partitions, a drawable that does not exceed its draw distance is in
\* the visible-geometry set, and carries the visible-geometry trait, if and
\* only if it has the geometry flag.
C1_VisibleIffGeometry ==
    AfterCollection =>
        \A i \in DOMAIN scene :
            ~ExceedsDrawDistance(scene[i]) =>
                /\ (DrawablePtr(i) \in Range(TVFlatten(visibleGeometries_)))
                      <=> ("GEOMETRY" \in scene[i].flags)
                /\ ("DrawableVisibleGeometry" \in traits_[i]) <=> ("GEOMETRY" \in scene[i].flags)

\* C2: after UpdateAndCollectSourceBatches, every light of the list whose
\* effective colour is not black and whose effective mask is not zero is in
\* the visible-light list exactly once, and every other light is not in it.
\* (Stated for the lights within their own draw distance, which the
\* collector is not meant to cull.)
C2_VisibleLights ==
    AfterCollection =>
        \A i \in DOMAIN scene :
            ("LIGHT" \in scene[i].flags /\ ~ExceedsDrawDistance(scene[i])) =>
                Count(visibleLights_, DrawablePtr(i)) =
                    IF ~scene[i].light.black /\ GetLightMaskEffective(scene[i]) # {} THEN 1 ELSE 0

(* ---------------------- pass descriptions: C6, C7 ---------------------- *)
\* Every pass description: a type of the enumeration or a value outside it,
\* each pass name resolved or not.
AllPassDescs ==
    { PassDesc(type, base, firstLight, additionalLight) :
        type \in {"Unlit", "ForwardLitBase", "ForwardUnlitBase", "Other"},
        base \in {BASE_PASS, M_MAX_UNSIGNED},
        firstLight \in {LITBASE_PASS, M_MAX_UNSIGNED},
        additionalLight \in {LIGHT_PASS, M_MAX_UNSIGNED} }

\* One description, or one followed by a valid one.
PassInputs ==
    {<<p>> : p \in AllPassDescs}
    \cup {<<p, ForwardLitBasePass>> : p \in AllPassDescs}

\* Near geometries of one source batch: of a material whose technique has
\* every pass, or of the default material, whose technique has the base pass;
\* and a directional light.
PassKinds ==
    { Geometry(0, 1, {1}, <<SourceBatch("geoA", material)>>, "outside") :
        material \in {"matLit", NullName} }
    \cup { Light(0, 1, {1}, LightProps("LIGHT_DIRECTIONAL", FALSE, FALSE, 0, 1)) }

InitPasses ==
    /\ CollectorInit(ScenesOf(PassKinds), PassInputs, {DefaultQuality})
    /\ collectArgs = NoCollectArgs
    /\ ScenePassConstructed

\* The collector over every pass description.
SpecPasses == InitPasses /\ [][CollectorNext]_vars

\* C6: a pass description that InitializePasses finds invalid is excluded
\* from collection: after UpdateAndCollectSourceBatches no intermediate
\* batch is in its unlit or lit bucket.
C6_InvalidPassExcluded ==
    AfterCollection =>
        \A p \in 1 .. Len(passes_) :
            ~IsValid(passes_[p]) =>
                TVSize(passes_[p].unlitBatches_) = 0 /\ TVSize(passes_[p].litBatches_) = 0

\* The sub-passes of a pass whose index is not the invalid index.
PresentSubPasses(pass) ==
    {n \in {"base", "firstLight", "additionalLight"} :
        CASE n = "base" -> pass.basePassIndex_ # M_MAX_UNSIGNED
          [] n = "firstLight" -> pass.firstLightPassIndex_ # M_MAX_UNSIGNED
          [] n = "additionalLight" -> pass.additionalLightPassIndex_ # M_MAX_UNSIGNED}

\* C7: IsValid accepts a pass exactly when its present sub-passes match its
\* type: Unlit = base only; ForwardUnlitBase = base and additional light;
\* ForwardLitBase = first light and additional light, base optional; every
\* other type is invalid.
C7_IsValid ==
    \A p \in 1 .. Len(passes_) :
        IsValid(passes_[p]) <=>
            \/ passes_[p].type_ = "Unlit" /\ PresentSubPasses(passes_[p]) = {"base"}
            \/ /\ passes_[p].type_ = "ForwardUnlitBase"
               /\ PresentSubPasses(passes_[p]) = {"base", "additionalLight"}
            \/ /\ passes_[p].type_ = "ForwardLitBase"
               /\ PresentSubPasses(passes_[p]) \in
                     {{"firstLight", "additionalLight"}, {"base", "firstLight", "additionalLight"}}

\* InitializePasses has accepted a ForwardLitBase pass without a base pass
\* and rejected the pass before it.
C7_Witness ==
    /\ pc = "UpdateAndCollectSourceBatches"
    /\ Len(passes_) = 2
    /\ ~IsValid(passes_[1])
    /\ passes_[1].type_ = "ForwardLitBase"
    /\ IsValid(passes_[2])
    /\ passes_[2].type_ = "ForwardLitBase"

(* --------------------------- lights: C8 -------------------------------- *)
\* Near geometries over masks and octree reports, a far geometry the octree
\* reports inside, and lights of every type.
LightKinds ==
    { Geometry(0, 1, mask, <<SourceBatch("geoA", "matLit")>>, vol) :
        mask \in {{1}, {2}}, vol \in {"outside", "inside", "boxpass", "boxfail"} }
    \cup { Geometry(3, 5, {1}, <<SourceBatch("geoA", "matLit")>>, "inside") }
    \cup { Light(0, 1, {1}, LightProps(type, FALSE, FALSE, 0, 1)) :
             type \in {"LIGHT_DIRECTIONAL", "LIGHT_POINT", "LIGHT_SPOT"} }

InitLights ==
    /\ CollectorInit(ScenesOf(LightKinds), {<<ForwardLitBasePass>>}, {DefaultQuality})
    /\ collectArgs = NoCollectArgs
    /\ ScenePassConstructed

\* The collector over scenes that vary the lights and what they reach.
SpecLights == InitLights /\ [][CollectorNext]_vars

\* The light-collection stage of ProcessVisibleLights has completed.
AfterLightCollection == pc \in {"AccumulateForwardLighting", "CollectSceneBatches", "Done"}

\* The lit geometries of the visible light of index i.
LitGeometries(i) == cachedLightData_[visibleLightsData_[i + 1]]

MasksIntersect(geometry, light) ==
    scene[GetDrawableIndex(geometry)].lightMask \cap scene[GetDrawableIndex(light)].lightMask # {}

\* C8: after the light-collection stage every lit geometry of a visible
\* light carries the visible-geometry trait and its mask meets the light's;
\* a directional light's list is the visible-geometry set filtered by mask,
\* a point or spot light's list holds only query candidates that are inside
\* the volume or whose box passes the volume test.
C8_LitGeometries ==
    AfterLightCollection =>
        \A i \in 0 .. (Len(visibleLights_) - 1) :
            LET light == visibleLights_[i + 1]
                lit == LitGeometries(i)
            IN  /\ \A k \in DOMAIN lit :
                      /\ "DrawableVisibleGeometry" \in traits_[GetDrawableIndex(lit[k])]
                      /\ MasksIntersect(lit[k], light)
                /\ IF scene[GetDrawableIndex(light)].light.lightType = "LIGHT_DIRECTIONAL"
                   THEN lit = SelectSeq(TVFlatten(visibleGeometries_),
                                        LAMBDA g : MasksIntersect(g, light))
                   ELSE \A k \in DOMAIN lit :
                           scene[GetDrawableIndex(lit[k])].vol \in {"inside", "boxpass"}

\* A point light has collected a lit geometry.
C8_Witness ==
    /\ AfterLightCollection
    /\ \E i \in 0 .. (Len(visibleLights_) - 1) :
          /\ scene[GetDrawableIndex(visibleLights_[i + 1])].light.lightType = "LIGHT_POINT"
          /\ Len(LitGeometries(i)) > 0

(* ----------------------- scene pass: C3 .. C10 ------------------------- *)
\* A near geometry of one source batch of the material.
PassGeometry(material) == Geometry(0, 1, {1}, <<SourceBatch("geoA", material)>>, "inside")

PointLight == Light(0, 1, {1}, LightProps("LIGHT_POINT", FALSE, FALSE, 0, 1))

\* The scene whose drawables are those of the sequence, in index order.
SceneOf(drawables) == [i \in 0 .. (Len(drawables) - 1) |-> drawables[i + 1]]

\* A technique of the material has the light pass of the scene pass.
HasLightPass(material) ==
    \E entry \in Range(Materials[material]) :
        entry.technique_ # NullName /\ GetPass(entry.technique_, lightPassIndex_) # NULL

\* A lit geometry and a point light in either index order; a geometry that
\* is in both buckets before a lit one; an unlit geometry without material
\* before one whose material is the default material; a geometry whose
\* technique has no pass before one whose technique has the light pass only.
PassScenes ==
    { SceneOf(<<PassGeometry("matLit"), PointLight>>),
      SceneOf(<<PointLight, PassGeometry("matLit")>>),
      SceneOf(<<PassGeometry("matUnlitBase"), PassGeometry("matLit")>>),
      SceneOf(<<PassGeometry(NullName), PassGeometry("matDefault")>>),
      SceneOf(<<PassGeometry("matNone"), PassGeometry("matLightOnly")>>) }

\* The scene lights handed to CollectSceneBatches: one light per light of
\* the scene; two for a scene of lit geometries only, none for an unlit one.
PassSceneLights(sc) ==
    IF \E i \in DOMAIN sc : "LIGHT" \in sc[i].flags
    THEN << SceneLight(7) >>
    ELSE IF \E i \in DOMAIN sc : \E batch \in Range(sc[i].batches) :
                batch.material_ # NullName /\ HasLightPass(batch.material_)
    THEN << SceneLight(7), SceneLight(9) >>
    ELSE << >>

\* The ranked pixel lights a geometry may have among n scene lights.
PixelLightLists(n) ==
    { lights \in {<<>>, <<0>>, <<1, 0>>} : \A j \in DOMAIN lights : lights[j] < n }

\* The arguments CollectSceneBatches may get for the scene: no main light or
\* the first light, and pixel lights for the geometries only.
CollectArgsOf(sc) ==
    LET lights == PassSceneLights(sc)
    IN  { CollectArgs(mainLightIndex, lights, lighting) :
            mainLightIndex \in {M_MAX_UNSIGNED} \cup ({0} \cap (0 .. (Len(lights) - 1))),
            lighting \in { l \in [DOMAIN sc -> PixelLightLists(Len(lights))] :
                             \A i \in DOMAIN sc : "GEOMETRY" \notin sc[i].flags => l[i] = <<>> } }

InitScenePass ==
    /\ CollectorInit(PassScenes, {<<ForwardLitBasePass>>}, {DefaultQuality})
    /\ ScenePassConstructed
    /\ collectArgs \in CollectArgsOf(scene)

\* The scene pass over frames of AddSourceBatch calls and one
\* CollectSceneBatches each.
SpecScenePass == InitScenePass /\ [][ScenePassNext]_vars

\* ScenePass::CollectSceneBatches has returned.
CollectSceneBatchesReturned == passPc = "BeginFrame" /\ frame > 0

\* The dirty additional-light batches as <<lane, index in the lane>>.
DirtyLightBatches ==
    UNION { { <<t, lightBatchesDirty_[t][k]>> : k \in DOMAIN lightBatchesDirty_[t] } : t \in Threads }

\* The slots of the dirty list.
DirtySlots(dirty) == Range(TVFlatten(dirty))

\* C3: when ScenePass::CollectSceneBatches has returned, every batch of the
\* unlit base list, the lit base list and the additional-light collection
\* has a non-null pipeline state; and when the lanes of a parallel lookup
\* have finished, every batch without a pipeline state is on the dirty list
\* of its collection, so that none is left in neither group.
C3_PipelineStatesResolved ==
    /\ CollectSceneBatchesReturned =>
          /\ \A k \in DOMAIN unlitBaseBatches_ : unlitBaseBatches_[k].pipelineState_ # NULL
          /\ \A k \in DOMAIN litBaseBatches_ : litBaseBatches_[k].pipelineState_ # NULL
          /\ \A t \in Threads : \A k \in DOMAIN lightBatches_[t] :
                lightBatches_[t][k].pipelineState_ # NULL
    /\ passPc = "ResolveUnlitBatches" =>
          \A k \in DOMAIN unlitBaseBatches_ :
              unlitBaseBatches_[k].pipelineState_ = NULL => (k - 1) \in DirtySlots(unlitBaseBatchesDirty_)
    /\ passPc = "ResolveLitBatches" =>
          /\ \A k \in DOMAIN litBaseBatches_ :
                litBaseBatches_[k].pipelineState_ = NULL => (k - 1) \in DirtySlots(litBaseBatchesDirty_)
          /\ \A t \in Threads : \A k \in DOMAIN lightBatches_[t] :
                lightBatches_[t][k].pipelineState_ = NULL => <<t, k - 1>> \in DirtyLightBatches

\* CollectSceneBatches has returned from a frame in which an unlit batch hit
\* the cache, a lit base batch was dirty and a light batch was dirty.
C3_Witness ==
    /\ CollectSceneBatchesReturned
    /\ \E k \in DOMAIN unlitBaseBatches_ : (k - 1) \notin DirtySlots(unlitBaseBatchesDirty_)
    /\ DirtySlots(litBaseBatchesDirty_) # {}
    /\ DirtyLightBatches # {}

\* The keys the batches of a list were resolved with.
ResolvedStates(batches) ==
    { batches[k].pipelineState_ : k \in DOMAIN batches } \ {NULL}

\* Every resolved batch of the list holds the state the cache has for the
\* state's key.
HoldsCachedStates(batches, cache) ==
    \A state \in ResolvedStates(batches) :
        state.key_ \in DOMAIN cache /\ cache[state.key_] = state

\* C4: over the frames, the creation callback has been called at most once
\* for every key of each of the three caches, and every batch resolved with
\* a key holds the one pipeline state the cache has for that key.
C4_CreatedOncePerKey ==
    /\ \A c \in DOMAIN created : created[c] <= 1
    /\ HoldsCachedStates(unlitBaseBatches_, unlitPipelineStateCache_)
    /\ HoldsCachedStates(litBaseBatches_, litPipelineStateCache_)
    /\ HoldsCachedStates(TVFlatten(lightBatches_), additionalLightPipelineStateCache_)

\* In the second frame two unlit batches of different drawables missed the
\* lookup with one key, both were put on the dirty list, and both hold the
\* state created once.
C4_Witness ==
    /\ CollectSceneBatchesReturned
    /\ frame = 2
    /\ Len(TVFlatten(unlitBaseBatchesDirty_)) = 2
    /\ unlitBaseBatches_[1].drawableIndex_ # unlitBaseBatches_[2].drawableIndex_
    /\ unlitBaseBatches_[1].pipelineState_ # NULL
    /\ unlitBaseBatches_[1].pipelineState_ = unlitBaseBatches_[2].pipelineState_
    /\ created[<<"unlitPipelineStateCache_", unlitBaseBatches_[1].pipelineState_.key_>>] = 1

\* The three pipeline-state caches.
PipelineStateCaches ==
    << unlitPipelineStateCache_, litPipelineStateCache_, additionalLightPipelineStateCache_ >>

\* C5: a step that calls the creation callback or changes a pipeline-state
\* cache is a step of a serial resolve pass, taken when no partition of the
\* preceding parallel phase is left to run; the steps of the lanes leave the
\* caches as they are.
C5_CreationAfterLanes ==
    [][ (created' # created \/ PipelineStateCaches' # PipelineStateCaches) =>
            (passPc \in {"ResolveUnlitBatches", "ResolveLitBatches"} /\ passWork = {}) ]_vars

\* The lanes of CollectLitBatches are running on two partitions after the
\* serial pass of CollectUnlitBatches has created a state.
C5_Witness ==
    /\ passPc = "CollectLitBatches"
    /\ Cardinality(passWork) = 2
    /\ \E c \in DOMAIN created : c[1] = "unlitPipelineStateCache_"

\* The lanes of CollectUnlitBatches of the frame have finished.
UnlitLanesFinished ==
    \/ passPc \in {"ResolveUnlitBatches", "CollectLitBatches", "ResolveLitBatches"}
    \/ CollectSceneBatchesReturned

\* The material of the source batch of an intermediate batch.
SourceMaterial(intermediateBatch) ==
    scene[GetDrawableIndex(intermediateBatch.geometry_)]
        .batches[intermediateBatch.sourceBatchIndex_ + 1].material_

\* C10: when the lanes of the unlit path have finished, the unlit base list
\* has one batch per unlit intermediate batch, in the same order, each slot
\* written by exactly one lane; the batch has light index "none", the
\* drawable, drawable index and source-batch index of its intermediate
\* batch, and the source batch's material, or the default material when the
\* source batch has none. No slot is ever written twice.
C10_UnlitBatches ==
    /\ \A k \in DOMAIN slotWrites : slotWrites[k] <= 1
    /\ UnlitLanesFinished =>
          /\ Len(unlitBaseBatches_) = TVSize(unlitBatches_)
          /\ \A k \in DOMAIN unlitBaseBatches_ :
                LET sceneBatch == unlitBaseBatches_[k]
                    intermediateBatch == TVFlatten(unlitBatches_)[k]
                IN  /\ slotWrites[k] = 1
                    /\ sceneBatch.lightIndex_ = M_MAX_UNSIGNED
                    /\ sceneBatch.drawable_ = intermediateBatch.geometry_
                    /\ sceneBatch.drawableIndex_ = GetDrawableIndex(intermediateBatch.geometry_)
                    /\ sceneBatch.sourceBatchIndex_ = intermediateBatch.sourceBatchIndex_
                    /\ sceneBatch.material_ =
                          IF SourceMaterial(intermediateBatch) # NullName
                          THEN SourceMaterial(intermediateBatch) ELSE DefaultMaterial

\* Two lanes have run the unlit path on one batch each, the second at offset
\* 1 for a drawable other than the first's, and a batch got the default material.
C10_Witness ==
    /\ passPc = "ResolveUnlitBatches"
    /\ Len(unlitBaseBatches_) = 2
    /\ unlitBaseBatchesDirty_[0] = <<1>>
    /\ unlitBaseBatchesDirty_[1] = <<0>>
    /\ unlitBaseBatches_[1].drawableIndex_ # unlitBaseBatches_[2].drawableIndex_
    /\ \E k \in 1 .. 2 :
          /\ SourceMaterial(TVFlatten(unlitBatches_)[k]) = NullName
          /\ unlitBaseBatches_[k].material_ = DefaultMaterial

\* The scene is one geometry of one lit source batch and one point light,
\* the geometry's only pixel light is that light, which is not the main
\* light, and the geometry's batch is the lit batch of the frame.
OneGeometryOnePointLight ==
    /\ Cardinality(DOMAIN scene) = 2
    /\ \E g \in DOMAIN scene, l \in DOMAIN scene :
          /\ "GEOMETRY" \in scene[g].flags
          /\ scene[l].light.lightType = "LIGHT_POINT"
          /\ scene[g].lightMask \cap GetLightMaskEffective(scene[l]) # {}
          /\ Len(collectArgs.sceneLights) = 1
          /\ collectArgs.mainLightIndex = M_MAX_UNSIGNED
          /\ collectArgs.drawableLighting[g] = <<0>>
          /\ collectArgs.drawableLighting[l] = <<>>
          /\ TVFlatten(litBatches_) =
                << IntermediateSceneBatch(DrawablePtr(g), 0, GetPass("techLit", litBasePassIndex_),
                                          GetPass("techLit", lightPassIndex_)) >>

\* C9: for one geometry of one lit source batch and one point light that
\* lights it, CollectLitBatches produces exactly one lit base batch and
\* exactly one additional-light batch, whose light index is that light's.
C9_OneLitBaseOneLightBatch ==
    (CollectSceneBatchesReturned /\ OneGeometryOnePointLight) =>
        /\ Len(litBaseBatches_) = 1
        /\ TVSize(lightBatches_) = 1
        /\ TVFlatten(lightBatches_)[1].lightIndex_ = 0

(* ---------------------- light accumulation: C11 ------------------------ *)
\* Directional lights over importance and scaled distance; the last one
\* shares no mask bit with the geometry.
AccumulateLights ==
    { Light(0, 1, {1}, LightProps("LIGHT_DIRECTIONAL", FALSE, FALSE, 2, 10)),
      Light(0, 1, {1}, LightProps("LIGHT_DIRECTIONAL", FALSE, FALSE, 5, 3)),
      Light(0, 1, {1}, LightProps("LIGHT_DIRECTIONAL", FALSE, FALSE, 1, 7)),
      Light(0, 1, {1}, LightProps("LIGHT_DIRECTIONAL", FALSE, FALSE, 5, 7)),
      Light(0, 1, {2}, LightProps("LIGHT_DIRECTIONAL", FALSE, FALSE, 9, 1)) }

\* The most lights of a scene of AccumulateScenes.
MaxAccumulateLights == 3

\* The sequences of 1 .. MaxAccumulateLights different lights.
AccumulateLightLists ==
    { s \in UNION { [1 .. n -> AccumulateLights] : n \in 1 .. MaxAccumulateLights } :
        \A i \in DOMAIN s, j \in DOMAIN s : i # j => s[i] # s[j] }

\* One geometry followed by the lights of a list.
AccumulateScenes ==
    { SceneOf(<<Geometry(0, 1, {1}, <<SourceBatch("geoA", "matLit")>>, "inside")>> \o lights) :
        lights \in AccumulateLightLists }

InitAccumulate ==
    /\ CollectorInit(AccumulateScenes, {<<ForwardLitBasePass>>}, {DefaultQuality})
    /\ collectArgs = NoCollectArgs
    /\ ScenePassConstructed

\* The collector over scenes of one geometry and several lights of
\* different rank.
SpecAccumulate == InitAccumulate /\ [][CollectorNext]_vars

\* AccumulateForwardLighting has run for every visible light.
AfterAccumulation == pc \in {"CollectSceneBatches", "Done"}

\* The light of index i of the visible lights.
VisibleLight(i) == scene[GetDrawableIndex(visibleLights_[i + 1])].light

\* The indices of the visible lights whose lit geometries hold drawable d.
LightsThatLit(d) ==
    { i \in 0 .. (Len(visibleLights_) - 1) : DrawablePtr(d) \in Range(LitGeometries(i)) }

\* Whether light i is ranked at least as well as light j.
RankedAtLeast(i, j) ==
    \/ VisibleLight(i).importance > VisibleLight(j).importance
    \/ /\ VisibleLight(i).importance = VisibleLight(j).importance
       /\ VisibleLight(i).scaledDistance <= VisibleLight(j).scaledDistance

\* C11: after AccumulateForwardLighting has run for all visible lights, the
\* pixel-light list of every visible geometry holds at most maxPixelLights_
\* (one) entry, and the entry it holds is the best ranked of all the lights
\* that lit the drawable (importance first, then ascending scaled distance),
\* whatever the order in which the lights were fed.
C11_BestRankedLightRetained ==
    AfterAccumulation =>
        \A d \in DOMAIN scene :
            "DrawableVisibleGeometry" \in traits_[d] =>
                /\ Len(drawableLighting_[d]) <= maxPixelLights_
                /\ Len(drawableLighting_[d]) = Min(Cardinality(LightsThatLit(d)), maxPixelLights_)
                /\ \A k \in DOMAIN drawableLighting_[d] :
                      /\ drawableLighting_[d][k][3] \in LightsThatLit(d)
                      /\ \A j \in LightsThatLit(d) : RankedAtLeast(drawableLighting_[d][k][3], j)

\* Lights of importance 2, 5 and 1 at distances 10, 3 and 7 were fed in that
\* order and the geometry keeps the light of importance 5.
C11_Witness ==
    /\ AfterAccumulation
    /\ Len(visibleLights_) = 3
    /\ <<VisibleLight(0).importance, VisibleLight(1).importance, VisibleLight(2).importance>>
           = <<2, 5, 1>>
    /\ <<VisibleLight(0).scaledDistance, VisibleLight(1).scaledDistance,
         VisibleLight(2).scaledDistance>> = <<10, 3, 7>>
    /\ LightsThatLit(0) = {0, 1, 2}
    /\ Len(drawableLighting_[0]) = 1
    /\ drawableLighting_[0][1][3] = 1

(* ---------------------- frames of the collector: C12, C13 -------------- *)
\* A near geometry, a geometry beyond its draw distance, a point light that
\* reaches the geometries, a directional light of greater importance, and a
\* drawable that is neither geometry nor light.
FrameKinds ==
    { Geometry(0, 1, {1}, <<SourceBatch("geoA", "matLit")>>, "inside"),
      Geometry(3, 5, {1}, <<SourceBatch("geoA", "matLit")>>, "inside"),
      Light(0, 1, {1}, LightProps("LIGHT_POINT", FALSE, FALSE, 0, 1)),
      Light(0, 1, {1}, LightProps("LIGHT_DIRECTIONAL", FALSE, FALSE, 5, 1)),
      Zone(0, 1) }

\* The scenes of two drawables of these kinds.
FrameScenes == [0 .. 1 -> FrameKinds]

\* The scenes the next frame may find: a drawable index may hold another
\* drawable (the old one changed, or was destroyed and a new one created). A
\* new light is a new object: no weak pointer of the cache refers to it.
NextScenes ==
    { next \in FrameScenes :
        \A i \in DOMAIN scene :
            ("LIGHT" \in next[i].flags /\ "LIGHT" \notin scene[i].flags)
                 => DrawablePtr(i) \notin DOMAIN cachedLightData_ }

\* The caller goes from the end of a frame to InitializeFrame of the next,
\* over a scene in which lights were created or destroyed and geometries moved.
NextFrame ==
    /\ pc = "Done"
    /\ frame + 1 < MaxFrames
    /\ frame' = frame + 1
    /\ \E next \in NextScenes : scene' = next
    /\ pc' = "InitializeFrame"
    /\ UNCHANGED << passInput, quality, materialQuality_, passes_, visibleGeometries_,
                    visibleLightsTemp_, visibleLights_, sceneZRange_, traits_, zRange_,
                    drawableLighting_, cachedLightData_, visibleLightsData_, work >>
    /\ UNCHANGED << collectArgs, passPc, unlitBatches_, litBatches_, unlitBaseBatchesDirty_,
                    litBaseBatchesDirty_, lightBatchesDirty_, unlitBaseBatches_, litBaseBatches_,
                    lightBatches_, unlitPipelineStateCache_, litPipelineStateCache_,
                    additionalLightPipelineStateCache_, passWork, created, slotWrites >>

FramesNext ==
    \/ CollectorNext
    \/ NextFrame

InitFrames ==
    /\ CollectorInit(FrameScenes, {<<ForwardLitBasePass>>}, {DefaultQuality})
    /\ collectArgs = NoCollectArgs
    /\ ScenePassConstructed

\* The collector over frames between which the scene changes.
SpecFrames == InitFrames /\ [][FramesNext]_vars

\* ProcessVisibleLights has allocated the light data of the frame.
LightDataAllocated ==
    pc \in {"ProcessLights", "AccumulateForwardLighting", "CollectSceneBatches", "Done"}

\* The light a weak pointer of the cache refers to still exists.
LightExists(weakLight) == "LIGHT" \in scene[GetDrawableIndex(weakLight)].flags

\* C12: over frames in which lights are created and destroyed, after
\* ProcessVisibleLights the weak-pointer cache cachedLightData_ holds no
\* entry whose light no longer exists.
C12_DeadLightDataPruned ==
    LightDataAllocated => \A weakLight \in DOMAIN cachedLightData_ : LightExists(weakLight)

\* The drawables of the visible-geometry set of the frame.
VisibleGeometrySet == Range(TVFlatten(visibleGeometries_))

\* C13: no light accumulation leaks between frames. After
\* ProcessVisibleLights, the accumulator of every drawable of the frame's
\* visible-geometry set holds only indices of the frame's visible-light list
\* whose lit-geometry list holds the drawable, and the lit-geometry list of
\* every visible light holds only drawables collected in the frame, each once.
C13_NoAccumulationLeak ==
    AfterAccumulation =>
        /\ \A geometry \in VisibleGeometrySet :
              \A k \in DOMAIN drawableLighting_[GetDrawableIndex(geometry)] :
                  LET lightIndex == drawableLighting_[GetDrawableIndex(geometry)][k][3]
                  IN  /\ lightIndex \in 0 .. (Len(visibleLights_) - 1)
                      /\ geometry \in Range(LitGeometries(lightIndex))
        /\ \A i \in 0 .. (Len(visibleLights_) - 1) :
              /\ Range(LitGeometries(i)) \subseteq VisibleGeometrySet
              /\ Cardinality(Range(LitGeometries(i))) = Len(LitGeometries(i))

\* In a later frame a visible geometry has an empty accumulator and is lit
\* by no visible light, while the light data of a light of an earlier frame
\* still lists it.
C13_Witness ==
    /\ AfterAccumulation
    /\ frame > 0
    /\ \E geometry \in VisibleGeometrySet :
          /\ drawableLighting_[GetDrawableIndex(geometry)] = <<>>
          /\ \E weakLight \in DOMAIN cachedLightData_ :
                /\ weakLight \notin Range(visibleLights_)
                /\ geometry \in Range(cachedLightData_[weakLight])

(* ------------------ lit base batches: C14, C15, C16 -------------------- *)
\* The light hash of the key a lit base batch is looked up with: that of
\* its base light, 0 without one.
BaseLightHash(sceneBatch) ==
    IF sceneBatch.lightIndex_ = M_MAX_UNSIGNED
    THEN 0
    ELSE GetPipelineStateHash(sceneBatch.lightIndex_)

\* The key of the lock-free lookup of a lit base batch.
LookupKey(sceneBatch) == ScenePipelineStateKey(sceneBatch, BaseLightHash(sceneBatch))

\* The light a lit base batch is to be created with: its base light, none
\* without one.
BaseLight(sceneBatch) ==
    IF sceneBatch.lightIndex_ = M_MAX_UNSIGNED
    THEN NULL
    ELSE SceneLightPtr(sceneBatch.lightIndex_)

\* C14: the key and the context light of the deferred get-or-create of a
\* dirty lit base batch are those of its lookup. When CollectSceneBatches
\* has returned, every lit base batch holds a pipeline state of its lookup
\* key, created with its base light (hash 0 and no light for a batch whose
\* top-ranked light is not the main light), and the cache has a state under
\* the lookup key, so that the batch is not dirty again in a later frame.
C14_ResolvedWithLookupKey ==
    CollectSceneBatchesReturned =>
        \A k \in DOMAIN litBaseBatches_ :
            LET sceneBatch == litBaseBatches_[k]
            IN  sceneBatch.pipelineState_ # NULL =>
                    /\ sceneBatch.pipelineState_.key_ = LookupKey(sceneBatch)
                    /\ sceneBatch.pipelineState_.light_ = BaseLight(sceneBatch)
                    /\ LookupKey(sceneBatch) \in DOMAIN litPipelineStateCache_

\* The lanes of CollectLitBatches of the frame have finished.
LitLanesFinished == passPc = "ResolveLitBatches" \/ CollectSceneBatchesReturned

\* The pixel lights of the drawable of an intermediate batch, in rank order.
OwnPixelLights(intermediateBatch) == GetPixelLights(GetDrawableIndex(intermediateBatch.geometry_))

\* The top-ranked light of the batch's drawable is the main light.
OwnHasLitBase(intermediateBatch) ==
    /\ Len(OwnPixelLights(intermediateBatch)) > 0
    /\ OwnPixelLights(intermediateBatch)[1] = collectArgs.mainLightIndex

\* The lights of the batch's drawable that are to get an additional-light batch.
OwnAdditionalLights(intermediateBatch) ==
    { OwnPixelLights(intermediateBatch)[j] :
        j \in (IF OwnHasLitBase(intermediateBatch) THEN 2 ELSE 1) ..
              Len(OwnPixelLights(intermediateBatch)) }

\* The positions <<lane, index>> of the additional-light batches made for an
\* intermediate batch.
LightBatchesOf(intermediateBatch) ==
    UNION { { <<t, k>> : k \in { n \in DOMAIN lightBatches_[t] :
                  /\ lightBatches_[t][n].drawable_ = intermediateBatch.geometry_
                  /\ lightBatches_[t][n].sourceBatchIndex_ = intermediateBatch.sourceBatchIndex_ } } :
            t \in Threads }

\* C15: the lit-path decision and the additional-light batches of a lit
\* intermediate batch are computed from the accumulator of the batch's own
\* drawable: the base batch has the main light as its light exactly when the
\* top-ranked pixel light of that drawable is the main light, and the lights
\* of its additional-light batches are the other pixel lights of that drawable.
C15_OwnDrawableLighting ==
    LitLanesFinished =>
        \A k \in DOMAIN litBaseBatches_ :
            LET intermediateBatch == TVFlatten(litBatches_)[k]
            IN  /\ litBaseBatches_[k].lightIndex_ =
                       (IF OwnHasLitBase(intermediateBatch)
                        THEN collectArgs.mainLightIndex ELSE M_MAX_UNSIGNED)
                /\ { lightBatches_[b[1]][b[2]].lightIndex_ : b \in LightBatchesOf(intermediateBatch) }
                       = OwnAdditionalLights(intermediateBatch)

\* C16: for every lit intermediate batch exactly one base batch is produced,
\* whose light index is "none" when the top-ranked light of the drawable is
\* not the main light, and every light of the drawable's ranked list is
\* represented exactly once: as the light index of the base batch when it is
\* top-ranked and the main light, otherwise by exactly one additional-light
\* batch, a copy of the base batch with the light index and the pass replaced.
C16_EveryLightOnce ==
    LitLanesFinished =>
        /\ Len(litBaseBatches_) = TVSize(litBatches_)
        /\ \A k \in DOMAIN litBaseBatches_ :
              LET intermediateBatch == TVFlatten(litBatches_)[k]
                  base == litBaseBatches_[k]
                  pixelLights == OwnPixelLights(intermediateBatch)
              IN  /\ base.drawable_ = intermediateBatch.geometry_
                  /\ base.sourceBatchIndex_ = intermediateBatch.sourceBatchIndex_
                  /\ base.pass_ = intermediateBatch.basePass_
                  /\ ~OwnHasLitBase(intermediateBatch) => base.lightIndex_ = M_MAX_UNSIGNED
                  /\ \A j \in DOMAIN pixelLights :
                        LET copies == { b \in LightBatchesOf(intermediateBatch) :
                                          lightBatches_[b[1]][b[2]].lightIndex_ = pixelLights[j] }
                        IN  IF j = 1 /\ OwnHasLitBase(intermediateBatch)
                            THEN base.lightIndex_ = pixelLights[j] /\ copies = {}
                            ELSE /\ Cardinality(copies) = 1
                                 /\ \A b \in copies :
                                       [lightBatches_[b[1]][b[2]] EXCEPT !.pipelineState_ = NULL] =
                                           [base EXCEPT !.lightIndex_ = pixelLights[j],
                                                        !.pass_ = intermediateBatch.additionalPass_,
                                                        !.pipelineState_ = NULL]

(* ---------------------- batch classification: C17 ---------------------- *)
ForwardUnlitBasePass == PassDesc("ForwardUnlitBase", BASE_PASS, M_MAX_UNSIGNED, LIGHT_PASS)

\* The four valid shapes of a pass description, and two invalid ones.
ClassifyPassInputs ==
    { <<UnlitPass>>, <<ForwardLitBasePass>>, <<ForwardUnlitBasePass>>,
      <<PassDesc("ForwardLitBase", M_MAX_UNSIGNED, LITBASE_PASS, LIGHT_PASS)>>,
      <<PassDesc("Unlit", BASE_PASS, M_MAX_UNSIGNED, LIGHT_PASS)>>,
      <<PassDesc("ForwardUnlitBase", BASE_PASS, LITBASE_PASS, LIGHT_PASS)>> }

\* Near geometries of one source batch over the materials, whose techniques
\* have every combination of passes or are null; and a directional light.
ClassifyKinds ==
    { Geometry(0, 1, {1}, <<SourceBatch("geoA", material)>>, "outside") :
        material \in {"matUnlit", "matLit", "matUnlitBase", "matLightOnly", "matNone",
                      "matNullTech"} }
    \cup { Light(0, 1, {1}, LightProps("LIGHT_DIRECTIONAL", FALSE, FALSE, 0, 1)) }

InitClassify ==
    /\ CollectorInit(ScenesOf(ClassifyKinds), ClassifyPassInputs, {DefaultQuality})
    /\ collectArgs = NoCollectArgs
    /\ ScenePassConstructed

\* The collector over techniques and pass descriptions of every shape.
SpecClassify == InitClassify /\ [][CollectorNext]_vars

\* The technique the collector finds for source batch i of drawable d.
TechniqueOf(d, i) ==
    FindTechnique(scene[d],
                  IF scene[d].batches[i + 1].material_ # NullName
                  THEN scene[d].batches[i + 1].material_ ELSE DefaultMaterial,
                  materialQuality_)

\* The technique is not null and has a pass at the index.
HasPass(technique, passIndex) == technique # NullName /\ GetPass(technique, passIndex) # NULL

\* The bucket holds an intermediate batch of source batch i of drawable d.
BatchIn(bucket, d, i) ==
    \E k \in DOMAIN TVFlatten(bucket) :
        /\ TVFlatten(bucket)[k].geometry_ = DrawablePtr(d)
        /\ TVFlatten(bucket)[k].sourceBatchIndex_ = i

\* The source batches <<d, i>> of the geometries the lanes collected.
CollectedSourceBatches ==
    UNION { { <<d, i>> : i \in 0 .. (Len(scene[d].batches) - 1) } :
            d \in { g \in DOMAIN scene : "DrawableVisibleGeometry" \in traits_[g] } }

\* The drawable has a source batch in a lit bucket of some pass.
InSomeLitBucket(d) ==
    \E p \in DOMAIN passes_ : \E b \in CollectedSourceBatches :
        b[1] = d /\ BatchIn(passes_[p].litBatches_, d, b[2])

\* C17: in the collector's collection, a source batch goes to a pass's lit
\* bucket, and its drawable gets the forward-lit trait, exactly when the
\* technique has the additional-light pass of that pass description;
\* otherwise to the unlit bucket when the technique has the base pass;
\* otherwise to neither. The lit bucket of an Unlit pass is empty, and a
\* drawable has the forward-lit trait only if some source batch of it is in
\* some lit bucket.
C17_LitIffAdditionalLightPass ==
    AfterCollection =>
        /\ \A p \in DOMAIN passes_ :
              IsValid(passes_[p]) =>
                  /\ passes_[p].type_ = "Unlit" => TVSize(passes_[p].litBatches_) = 0
                  /\ \A b \in CollectedSourceBatches :
                        LET technique == TechniqueOf(b[1], b[2])
                            additional == HasPass(technique, passes_[p].additionalLightPassIndex_)
                            base == HasPass(technique, passes_[p].basePassIndex_)
                        IN  /\ BatchIn(passes_[p].litBatches_, b[1], b[2]) <=> additional
                            /\ BatchIn(passes_[p].unlitBatches_, b[1], b[2]) <=> (~additional /\ base)
                            /\ additional => "ForwardLit" \in traits_[b[1]]
        /\ \A d \in DOMAIN scene : "ForwardLit" \in traits_[d] => InSomeLitBucket(d)

\* Whether CreateIntermediateSceneBatch makes a lit batch: the pass is not
\* Unlit, the technique has the additional-light pass and the pass the type
\* takes as the base of a lit batch.
LitCombination(pass, technique) ==
    /\ HasPass(technique, pass.additionalLightPassIndex_)
    /\ \/ pass.type_ = "ForwardUnlitBase" /\ HasPass(technique, pass.basePassIndex_)
       \/ pass.type_ = "ForwardLitBase" /\ HasPass(technique, pass.firstLightPassIndex_)

\* C17 as amended: a source batch goes to the lit bucket, and its drawable
\* gets the forward-lit trait, exactly when the pass is ForwardUnlitBase and
\* the technique has the base and the additional-light pass, or the pass is
\* ForwardLitBase and the technique has the first-light and the
\* additional-light pass; to the unlit bucket exactly when the pass is Unlit
\* or the technique lacks the additional-light pass, and the technique has
\* the base pass; otherwise to neither. The lit bucket of an Unlit pass is
\* empty, and a drawable has the forward-lit trait exactly when some source
\* batch of it is in some lit bucket.
C17_LitIffLitCombination ==
    AfterCollection =>
        /\ \A p \in DOMAIN passes_ :
              /\ passes_[p].type_ = "Unlit" => TVSize(passes_[p].litBatches_) = 0
              /\ \A b \in CollectedSourceBatches :
                    LET technique == TechniqueOf(b[1], b[2])
                        additional == HasPass(technique, passes_[p].additionalLightPassIndex_)
                        base == HasPass(technique, passes_[p].basePassIndex_)
                    IN  /\ BatchIn(passes_[p].litBatches_, b[1], b[2])
                               <=> LitCombination(passes_[p], technique)
                        /\ BatchIn(passes_[p].unlitBatches_, b[1], b[2])
                               <=> ((passes_[p].type_ = "Unlit" \/ ~additional) /\ base)
        /\ \A d \in DOMAIN scene : "ForwardLit" \in traits_[d] <=> InSomeLitBucket(d)

\* A valid ForwardLitBase pass has collected a geometry whose technique has
\* the base and the additional-light pass and no first-light pass: its
\* source batch is in neither bucket and the geometry is not forward-lit.
C17_Witness ==
    /\ AfterCollection
    /\ \E p \in DOMAIN passes_ : \E b \in CollectedSourceBatches :
          /\ IsValid(passes_[p])
          /\ passes_[p].type_ = "ForwardLitBase"
          /\ TechniqueOf(b[1], b[2]) = "techUnlitBase"
          /\ ~BatchIn(passes_[p].litBatches_, b[1], b[2])
          /\ ~BatchIn(passes_[p].unlitBatches_, b[1], b[2])
          /\ "ForwardLit" \notin traits_[b[1]]

(* ------------------------- null passes: C18 ---------------------------- *)
\* The intermediate batches of a bucket.
BatchesOf(bucket) == Range(TVFlatten(bucket))

\* C18: no intermediate batch is in an unlit bucket with a null base pass,
\* or in a lit bucket with a null base pass or a null additional pass,
\* neither in the buckets of the collector's passes nor in the buckets that
\* ScenePass::AddSourceBatch fills.
C18_NoNullPassInBucket ==
    /\ \A p \in DOMAIN passes_ :
          /\ \A batch \in BatchesOf(passes_[p].unlitBatches_) : batch.basePass_ # NULL
          /\ \A batch \in BatchesOf(passes_[p].litBatches_) :
                batch.basePass_ # NULL /\ batch.additionalPass_ # NULL
    /\ \A batch \in BatchesOf(unlitBatches_) : batch.basePass_ # NULL
    /\ \A batch \in BatchesOf(litBatches_) :
          batch.basePass_ # NULL /\ batch.additionalPass_ # NULL

(* ----------------------- technique selection: C19 ---------------------- *)
\* The LOD distances of the geometries: below, at and above the thresholds
\* of the materials' entries.
LodDistances == {0, 5, 7}

\* Near geometries of one source batch over materials with one entry, with
\* several entries, with a null entry and with none, at every LOD distance.
TechniqueGeometries ==
    { Drawable({"GEOMETRY"}, 0, 1, {1}, <<SourceBatch("geoA", material)>>, lodDistance,
               <<1, 5, 1>>, "outside", NoLight) :
        material \in {"matLit", "matNullTech", "matLod", "matFallback", "matNullLast", "matEmpty"},
        lodDistance \in LodDistances }

\* A geometry and a directional light.
TechniqueScenes ==
    { SceneOf(<<geometry, Light(0, 1, {1}, LightProps("LIGHT_DIRECTIONAL", FALSE, FALSE, 0, 1))>>) :
        geometry \in TechniqueGeometries }

\* Renderer::GetMaterialQuality and the camera's VO_LOW_MATERIAL_QUALITY flag.
Qualities == [renderer : 0 .. 2, low : BOOLEAN]

InitTechnique ==
    /\ CollectorInit(TechniqueScenes, {<<UnlitPass>>}, Qualities)
    /\ collectArgs = NoCollectArgs
    /\ ScenePassConstructed

\* The collector over materials, LOD distances and material qualities.
SpecTechnique == InitTechnique /\ [][CollectorNext]_vars

\* The quality in effect: the renderer's, low under the camera's override.
EffectiveQuality == IF quality.low THEN QUALITY_LOW ELSE quality.renderer

\* The entries of the list that qualify for the LOD distance and the quality.
Qualifying(techniques, lodDistance, effectiveQuality) ==
    { k \in DOMAIN techniques :
        /\ techniques[k].technique_ # NullName
        /\ Techniques[techniques[k].technique_].supported
        /\ techniques[k].qualityLevel_ <= effectiveQuality
        /\ techniques[k].lodDistance_ <= lodDistance }

\* The technique the selection is to return.
SelectedTechnique(techniques, lodDistance, effectiveQuality) ==
    LET qualifying == Qualifying(techniques, lodDistance, effectiveQuality)
    IN  IF Len(techniques) = 1
        THEN techniques[1].technique_
        ELSE IF qualifying # {}
        THEN techniques[CHOOSE k \in qualifying : \A other \in qualifying : k <= other].technique_
        ELSE IF Len(techniques) = 0
        THEN NullName
        ELSE techniques[Len(techniques)].technique_

\* The material of source batch i of drawable d, the default one for none.
MaterialOf(d, i) ==
    IF scene[d].batches[i + 1].material_ # NullName
    THEN scene[d].batches[i + 1].material_ ELSE DefaultMaterial

\* C19: FindTechnique returns the only entry's technique of a list of one
\* entry; otherwise the first entry in list order that is non-null,
\* supported, of a quality level not above the quality in effect and of a
\* LOD threshold not above the drawable's LOD distance; otherwise the last
\* entry's technique, null for an empty list or a null last entry. The
\* quality in effect is the renderer's, low under the camera's override.
\* The batch the collector inserts for the source batch is of that technique.
C19_FindTechnique ==
    AfterCollection =>
        /\ materialQuality_ = EffectiveQuality
        /\ \A b \in CollectedSourceBatches :
              LET selected == SelectedTechnique(Materials[MaterialOf(b[1], b[2])],
                                                scene[b[1]].lodDistance, EffectiveQuality)
              IN  /\ TechniqueOf(b[1], b[2]) = selected
                  /\ \A batch \in BatchesOf(passes_[1].unlitBatches_) :
                        (batch.geometry_ = DrawablePtr(b[1]) /\ batch.sourceBatchIndex_ = b[2])
                            => batch.basePass_ = <<selected, BASE_PASS>>
                  /\ BatchIn(passes_[1].unlitBatches_, b[1], b[2])
                         <=> HasPass(selected, BASE_PASS)

\* At low quality under the camera's override, a geometry below every LOD
\* threshold that qualifies has the batch of the last entry's technique.
C19_Witness ==
    /\ AfterCollection
    /\ quality.low /\ quality.renderer = 2
    /\ \E b \in CollectedSourceBatches :
          /\ MaterialOf(b[1], b[2]) = "matFallback"
          /\ scene[b[1]].lodDistance = 0
          /\ Qualifying(Materials["matFallback"], 0, EffectiveQuality) = {}
          /\ \E batch \in BatchesOf(passes_[1].unlitBatches_) :
                batch.basePass_ = <<"techUnlit", BASE_PASS>>

(* --------------------------- scene Z range: C20 ------------------------ *)
\* Bounding boxes as <<length of the half-extent, view-space Z of the centre,
\* view-space Z extent>>: three finite ones, one at the threshold of
\* "infinite" objects and one above it.
ZRangeBoxes ==
    { <<1, 5, 1>>, <<2, 3, 2>>, <<0, 9, 0>>,
      <<M_LARGE_VALUE, 0, M_LARGE_VALUE>>, <<M_LARGE_VALUE + 1, 4, M_LARGE_VALUE + 1>> }

\* Near geometries over the boxes, a finite geometry beyond its draw
\* distance, and a directional light.
ZRangeKinds ==
    { Drawable({"GEOMETRY"}, 0, 1, {1}, <<SourceBatch("geoA", "matLit")>>, 0, box, "outside", NoLight) :
        box \in ZRangeBoxes }
    \cup { Drawable({"GEOMETRY"}, 3, 5, {1}, <<SourceBatch("geoA", "matLit")>>, 0, <<3, 20, 3>>,
                    "outside", NoLight),
           Light(0, 1, {1}, LightProps("LIGHT_DIRECTIONAL", FALSE, FALSE, 0, 1)) }

InitZRange ==
    /\ CollectorInit(ScenesOf(ZRangeKinds), {<<ForwardLitBasePass>>}, {DefaultQuality})
    /\ collectArgs = NoCollectArgs
    /\ ScenePassConstructed

\* The collector over scenes that vary the bounding boxes.
SpecZRange == InitZRange /\ [][CollectorNext]_vars

\* The geometries of the frame's visible set.
VisibleGeometryIndices == { d \in DOMAIN scene : "DrawableVisibleGeometry" \in traits_[d] }

\* The half-extent of the drawable's box is at or above the threshold.
IsInfinite(d) == scene[d].box[1] >= M_LARGE_VALUE

\* The visible geometries whose Z range is valid.
FiniteVisible == { d \in VisibleGeometryIndices : ~IsInfinite(d) }

MinZ(d) == scene[d].box[2] - scene[d].box[3]
MaxZ(d) == scene[d].box[2] + scene[d].box[3]

\* The lanes that have accumulated a range.
AccumulatingLanes == { t \in Threads : sceneZRange_[t] # NULL }

\* The aggregate of the lanes' ranges: the least minimum and the greatest maximum.
AggregateZRange ==
    << CHOOSE z \in { sceneZRange_[t][1] : t \in AccumulatingLanes } :
           \A t \in AccumulatingLanes : z <= sceneZRange_[t][1],
       CHOOSE z \in { sceneZRange_[t][2] : t \in AccumulatingLanes } :
           \A t \in AccumulatingLanes : z >= sceneZRange_[t][2] >>

\* C20: after collection the aggregate scene Z range is (the least minZ, the
\* greatest maxZ) over exactly the visible geometries whose Z range is valid
\* (there is none when no such geometry is visible); a geometry whose
\* half-extent is at or above M_LARGE_VALUE has the range {M_LARGE_VALUE,
\* M_LARGE_VALUE} in the transient index, adds nothing to the aggregate, and
\* is in the visible-geometry set with the visible-geometry trait and with
\* its source batches collected.
C20_SceneZRange ==
    AfterCollection =>
        /\ FiniteVisible = {} <=> AccumulatingLanes = {}
        /\ FiniteVisible # {} =>
              /\ \A d \in FiniteVisible : AggregateZRange[1] <= MinZ(d) /\ MaxZ(d) <= AggregateZRange[2]
              /\ \E d \in FiniteVisible : AggregateZRange[1] = MinZ(d)
              /\ \E d \in FiniteVisible : AggregateZRange[2] = MaxZ(d)
        /\ \A d \in FiniteVisible : zRange_[d] = <<MinZ(d), MaxZ(d)>>
        /\ \A d \in DOMAIN scene :
              ("GEOMETRY" \in scene[d].flags /\ "DrawableUpdated" \in traits_[d]
                   /\ ~ExceedsDrawDistance(scene[d]) /\ IsInfinite(d)) =>
                  /\ zRange_[d] = <<M_LARGE_VALUE, M_LARGE_VALUE>>
                  /\ DrawablePtr(d) \in VisibleGeometrySet
                  /\ "DrawableVisibleGeometry" \in traits_[d]
                  /\ \A i \in 0 .. (Len(scene[d].batches) - 1) :
                        BatchIn(passes_[1].litBatches_, d, i)

\* Collection is over for a scene of a finite geometry and an "infinite"
\* one, both visible: the aggregate is the finite geometry's range.
C20_Witness ==
    /\ AfterCollection
    /\ \E d \in FiniteVisible : \E e \in VisibleGeometryIndices :
          /\ FiniteVisible = {d}
          /\ IsInfinite(e)
          /\ zRange_[e] = <<M_LARGE_VALUE, M_LARGE_VALUE>>
          /\ AggregateZRange = <<MinZ(d), MaxZ(d)>>

(* --------------------- stages of the lights: C21, C22 ------------------ *)
\* The step adds an entry to the light accumulator of some drawable.
AccumulationStep ==
    \E d \in DOMAIN drawableLighting_ \cap DOMAIN drawableLighting_' :
        /\ drawableLighting_'[d] # drawableLighting_[d]
        /\ drawableLighting_'[d] # <<>>

\* The lit-geometry collection of every visible light has completed: the
\* list of each is what its collection makes of an empty list.
AllLitGeometriesCollected ==
    \A i \in 0 .. (Len(visibleLights_) - 1) :
        LitGeometries(i) = CollectLitGeometries(visibleLights_[i + 1], <<>>)

\* The step is a lit-geometry collection task: it writes the list of one
\* light of the work left, and neither the lists of the other lights nor
\* the visible geometries, the traits or the Z ranges it reads.
CollectionTaskStep ==
    /\ visibleGeometries_' = visibleGeometries_
    /\ traits_' = traits_
    /\ zRange_' = zRange_
    /\ drawableLighting_' = drawableLighting_
    /\ DOMAIN cachedLightData_' = DOMAIN cachedLightData_
    /\ \E i \in work :
          /\ \A weakLight \in DOMAIN cachedLightData_ :
                weakLight # visibleLightsData_[i + 1]
                    => cachedLightData_'[weakLight] = cachedLightData_[weakLight]
          /\ cachedLightData_'[visibleLightsData_[i + 1]] =
                 CollectLitGeometries(visibleLights_[i + 1], <<>>)

\* C21: the barrier of ProcessVisibleLights. No step accumulates a light on
\* a drawable before the lit-geometry collection tasks of all visible lights
\* have completed; and every collection task writes the lit-geometry list of
\* its own light only, leaving the visible-geometry set and the transient
\* traits it reads as they are.
C21_StageBarrier ==
    [][ /\ AccumulationStep => (pc = "AccumulateForwardLighting" /\ AllLitGeometriesCollected)
        /\ pc = "ProcessLights" => CollectionTaskStep ]_vars

\* Two lights have collected the geometry and the first of them has been
\* accumulated while the second is still to be.
C21_Witness ==
    /\ pc = "AccumulateForwardLighting"
    /\ Len(visibleLights_) >= 2
    /\ work = 1 .. (Len(visibleLights_) - 1)
    /\ LitGeometries(0) # <<>>
    /\ LitGeometries(1) # <<>>
    /\ drawableLighting_[0] # <<>>

\* The lanes of AccumulateForwardLighting, one element at a time. A task of
\* the parallel loop over a light's lit geometries: its partition, the lane
\* that runs it (none before it starts) and the elements it has done.
AccumulateTask(lightIndex, part) == [lightIndex |-> lightIndex, part |-> part, lane |-> {}, pos |-> 0]

\* The task is running: a lane has taken it and has elements left.
Running(task) == task.lane # {} /\ task.pos < task.part[2]

\* The element a lane reads at position pos of its span, without the
\* offset of the span.
LitGeometryAt_NoOffset(geometries, offset, pos) == geometries[pos + 1]

\* The element at position pos of the span that starts at offset.
LitGeometryAt(geometries, offset, pos) == geometries[offset + pos + 1]

\* AccumulateForwardLighting(lightIndex) for the next light in index order,
\* up to the start of its lanes: ForEachParallel splits the light's lit
\* geometries into partitions; without lit geometries it returns at once.
AccumulateForwardLightingBegin ==
    /\ pc = "AccumulateForwardLighting"
    /\ LET lightIndex == CHOOSE i \in work : \A j \in work : i <= j
           geometries == cachedLightData_[visibleLightsData_[lightIndex + 1]]
       IN  \E split \in Splits(Len(geometries)) :
              IF split = {}
              THEN /\ work' = work \ {lightIndex}
                   /\ pc' = IF work' = {} THEN "CollectSceneBatches" ELSE pc
              ELSE /\ work' = { AccumulateTask(lightIndex, part) : part \in split }
                   /\ pc' = "AccumulateLanes"
    /\ UNCHANGED << scene, passInput, quality, materialQuality_, passes_, visibleGeometries_,
                    visibleLightsTemp_, visibleLights_, sceneZRange_, traits_, zRange_,
                    drawableLighting_, cachedLightData_, visibleLightsData_ >>
    /\ UNCHANGED scenePassVars

\* A lane that runs no task takes a task that has not started.
AccumulateLaneStart ==
    /\ pc = "AccumulateLanes"
    /\ \E task \in work, threadIndex \in Threads :
          /\ task.lane = {}
          /\ \A other \in work : Running(other) => other.lane # {threadIndex}
          /\ work' = (work \ {task}) \cup {[task EXCEPT !.lane = {threadIndex}]}
    /\ UNCHANGED << scene, passInput, quality, materialQuality_, passes_, visibleGeometries_,
                    visibleLightsTemp_, visibleLights_, sceneZRange_, traits_, zRange_,
                    drawableLighting_, cachedLightData_, visibleLightsData_, pc >>
    /\ UNCHANGED scenePassVars

\* A running lane accumulates the light on the next geometry of its span.
AccumulateLaneStep ==
    /\ pc = "AccumulateLanes"
    /\ \E task \in work :
          /\ Running(task)
          /\ LET light == scene[GetDrawableIndex(visibleLights_[task.lightIndex + 1])].light
                 geometries == cachedLightData_[visibleLightsData_[task.lightIndex + 1]]
                 drawableIndex ==
                     GetDrawableIndex(LitGeometryAt(geometries, task.part[1], task.pos))
             IN  drawableLighting_' =
                     [drawableLighting_ EXCEPT ![drawableIndex] =
                         AccumulateLight(@, light.importance, light.scaledDistance, task.lightIndex)]
          /\ work' = (work \ {task}) \cup {[task EXCEPT !.pos = @ + 1]}
    /\ UNCHANGED << scene, passInput, quality, materialQuality_, passes_, visibleGeometries_,
                    visibleLightsTemp_, visibleLights_, sceneZRange_, traits_, zRange_,
                    cachedLightData_, visibleLightsData_, pc >>
    /\ UNCHANGED scenePassVars

\* Every lane has finished its span: ForEachParallel returns, and the loop
\* of ProcessVisibleLights goes on to the next light.
AccumulateForwardLightingEnd ==
    /\ pc = "AccumulateLanes"
    /\ \A task \in work : task.pos = task.part[2]
    /\ LET remaining == { i \in 0 .. (Len(visibleLights_) - 1) :
                            \A task \in work : i > task.lightIndex }
       IN  /\ work' = remaining
           /\ pc' = IF remaining = {} THEN "CollectSceneBatches" ELSE "AccumulateForwardLighting"
    /\ UNCHANGED << scene, passInput, quality, materialQuality_, passes_, visibleGeometries_,
                    visibleLightsTemp_, visibleLights_, sceneZRange_, traits_, zRange_,
                    drawableLighting_, cachedLightData_, visibleLightsData_ >>
    /\ UNCHANGED scenePassVars

\* The collector with the lanes of AccumulateForwardLighting as steps.
AccumulateLanesNext ==
    \/ InitializeFrame
    \/ InitializePasses
    \/ UpdateAndCollectSourceBatches
    \/ UpdateAndCollectLane
    \/ ProcessVisibleLights
    \/ ProcessLightThreaded
    \/ AccumulateForwardLightingBegin
    \/ AccumulateLaneStart
    \/ AccumulateLaneStep
    \/ AccumulateForwardLightingEnd
    \/ CollectSceneBatches

\* Two geometries, the second with a mask bit of its own, before one or two
\* different directional lights that light both geometries or the second only.
AccumulateLaneLights ==
    { Light(0, 1, {1}, LightProps("LIGHT_DIRECTIONAL", FALSE, FALSE, 2, 10)),
      Light(0, 1, {1}, LightProps("LIGHT_DIRECTIONAL", FALSE, FALSE, 5, 7)),
      Light(0, 1, {2}, LightProps("LIGHT_DIRECTIONAL", FALSE, FALSE, 5, 3)) }

AccumulateLaneScenes ==
    { SceneOf(<< Geometry(0, 1, {1}, <<SourceBatch("geoA", "matLit")>>, "inside"),
                 Geometry(0, 1, {1, 2}, <<SourceBatch("geoA", "matLit")>>, "inside") >> \o lights) :
        lights \in { s \in UNION { [1 .. n -> AccumulateLaneLights] : n \in 1 .. 2 } :
                       \A i \in DOMAIN s, j \in DOMAIN s : i # j => s[i] # s[j] } }

InitAccumulateLanes ==
    /\ CollectorInit(AccumulateLaneScenes, {<<ForwardLitBasePass>>}, {DefaultQuality})
    /\ collectArgs = NoCollectArgs
    /\ ScenePassConstructed

\* The collector over scenes of two geometries and several lights, with the
\* lanes of the light accumulation interleaved.
SpecAccumulateLanes == InitAccumulateLanes /\ [][AccumulateLanesNext]_vars

\* The geometry a running lane updates next.
NextGeometryOf(task) ==
    LitGeometryAt(cachedLightData_[visibleLightsData_[task.lightIndex + 1]], task.part[1], task.pos)

\* The positions of a light's lit-geometry list that a task covers.
PositionsOf(task) == (task.part[1] + 1) .. (task.part[1] + task.part[2])

\* The accumulators after the lights from lightIndex on were accumulated
\* one after another, each over its whole list in list order.
RECURSIVE AccumulateInOrder(_, _)
AccumulateInOrder(lighting, lightIndex) ==
    IF lightIndex >= Len(visibleLights_)
    THEN lighting
    ELSE AccumulateInOrder(
             AccumulateForwardLighting(lighting, lightIndex, LitGeometries(lightIndex), 1),
             lightIndex + 1)

\* C22: while the lanes of the light accumulation run, all of them work on
\* one light, every position of that light's lit-geometry list belongs to
\* exactly one partition, the list names no drawable twice, and no two
\* running lanes update the same drawable's accumulator; after the
\* accumulation the accumulators are those of accumulating the lights one
\* after another in index order, whatever the interleaving was.
C22_NoSharedAccumulator ==
    /\ pc = "AccumulateLanes" =>
          /\ \A a \in work, b \in work : a.lightIndex = b.lightIndex
          /\ \A a \in work :
                LET geometries == cachedLightData_[visibleLightsData_[a.lightIndex + 1]]
                IN  /\ \A k \in 1 .. Len(geometries) :
                          Cardinality({ task \in work : k \in PositionsOf(task) }) = 1
                    /\ \A k \in 1 .. Len(geometries), m \in 1 .. Len(geometries) :
                          geometries[k] = geometries[m] => k = m
          /\ \A a \in work, b \in work :
                (Running(a) /\ Running(b) /\ a # b) => NextGeometryOf(a) # NextGeometryOf(b)
    /\ AfterAccumulation =>
          drawableLighting_ = AccumulateInOrder([d \in DOMAIN scene |-> <<>>], 0)

\* Two lanes run at once on different partitions of the second light's
\* list, after the first light was accumulated on both geometries.
C22_Witness ==
    /\ pc = "AccumulateLanes"
    /\ \E a \in work, b \in work :
          /\ a # b /\ Running(a) /\ Running(b) /\ a.lane # b.lane
          /\ a.lightIndex = 1
    /\ drawableLighting_[0] # <<>>
    /\ drawableLighting_[1] # <<>>

(* ------------------- buffers of a frame: C23 --------------------------- *)
\* A description that IsValid rejects: an unlit pass that names an
\* additional-light pass.
UnlitWithLightPass == PassDesc("Unlit", BASE_PASS, M_MAX_UNSIGNED, LIGHT_PASS)

\* The valid lit pass alone, or after the rejected description.
FramePassInputs == {<<ForwardLitBasePass>>, <<UnlitWithLightPass, ForwardLitBasePass>>}

\* The scenes the next frame may find when no drawable is created or
\* destroyed: every drawable is the object it was, moved or changed.
MovedScenes == { next \in FrameScenes : \A i \in DOMAIN scene : next[i].flags = scene[i].flags }

\* The caller goes from the end of a frame to InitializeFrame of the next,
\* over the same drawables.
NextFrameMoved ==
    /\ pc = "Done"
    /\ frame + 1 < MaxFrames
    /\ frame' = frame + 1
    /\ \E next \in MovedScenes : scene' = next
    /\ pc' = "InitializeFrame"
    /\ UNCHANGED << passInput, quality, materialQuality_, passes_, visibleGeometries_,
                    visibleLightsTemp_, visibleLights_, sceneZRange_, traits_, zRange_,
                    drawableLighting_, cachedLightData_, visibleLightsData_, work >>
    /\ UNCHANGED << collectArgs, passPc, unlitBatches_, litBatches_, unlitBaseBatchesDirty_,
                    litBaseBatchesDirty_, lightBatchesDirty_, unlitBaseBatches_, litBaseBatches_,
                    lightBatches_, unlitPipelineStateCache_, litPipelineStateCache_,
                    additionalLightPipelineStateCache_, passWork, created, slotWrites >>

FramePassesNext ==
    \/ CollectorNext
    \/ NextFrameMoved

InitFramePasses ==
    /\ CollectorInit(FrameScenes, FramePassInputs, {DefaultQuality})
    /\ collectArgs = NoCollectArgs
    /\ ScenePassConstructed

\* The collector over frames of the same drawables, with and without a
\* rejected pass description.
SpecFramePasses == InitFramePasses /\ [][FramePassesNext]_vars

\* The collector's buffers of a frame hold nothing.
CollectorBuffersEmpty ==
    /\ TVSize(visibleGeometries_) = 0
    /\ TVSize(visibleLightsTemp_) = 0
    /\ \A t \in Threads : sceneZRange_[t] = NULL
    /\ \A d \in DOMAIN traits_ : traits_[d] = {}
    /\ \A p \in 1 .. Len(passes_) :
          TVSize(passes_[p].unlitBatches_) = 0 /\ TVSize(passes_[p].litBatches_) = 0

\* The scene pass's lists of a frame hold nothing.
ScenePassBuffersEmpty ==
    /\ TVSize(unlitBatches_) = 0
    /\ TVSize(litBatches_) = 0
    /\ TVSize(unlitBaseBatchesDirty_) = 0
    /\ TVSize(litBaseBatchesDirty_) = 0
    /\ TVSize(lightBatchesDirty_) = 0
    /\ unlitBaseBatches_ = <<>>
    /\ litBaseBatches_ = <<>>
    /\ TVSize(lightBatches_) = 0

\* The drawables of the output batches of the collector's passes.
OutputDrawables ==
    UNION { { passes_[p].unlitBaseSceneBatches_[k].drawable_ :
                k \in DOMAIN passes_[p].unlitBaseSceneBatches_ } : p \in 1 .. Len(passes_) }

\* C23: at the start of every frame, when InitializeFrame and
\* InitializePasses of the collector have run and when BeginFrame of the
\* scene pass has run, the frame's buffers (visible geometries, visible
\* lights, scene Z range, transient traits, the passes' unlit and lit
\* buckets, the dirty lists and the final batch lists) hold nothing of an
\* earlier frame, and at the end of a frame every output batch is of a
\* geometry collected in that frame.
C23_FrameBuffersReset ==
    [][ /\ (pc = "InitializePasses" /\ pc' = "UpdateAndCollectSourceBatches") => CollectorBuffersEmpty'
        /\ (passPc = "BeginFrame" /\ passPc' = "AddSourceBatch") => ScenePassBuffersEmpty'
        /\ (pc = "CollectSceneBatches" /\ pc' = "Done") => (OutputDrawables \subseteq VisibleGeometrySet)' ]_vars

(* ------------- a creation callback that fails: C24 --------------------- *)
\* The sorted list with one more batch, after the batches that do not
\* come after it.
InsertSorted(sorted, batch) ==
    LET n == Cardinality({ k \in DOMAIN sorted : sorted[k].drawableIndex_ <= batch.drawableIndex_ })
    IN  SubSeq(sorted, 1, n) \o <<batch>> \o SubSeq(sorted, n + 1, Len(sorted))

RECURSIVE SortBatchesFrom(_, _, _)
SortBatchesFrom(sorted, sceneBatches, k) ==
    IF k > Len(sceneBatches)
    THEN sorted
    ELSE SortBatchesFrom(InsertSorted(sorted, sceneBatches[k]), sceneBatches, k + 1)

\* SortBatches(sceneBatches, sortedBatches): the batches of the list in a
\* stable order, here by drawable index.
SortBatches(sceneBatches) == SortBatchesFrom(<<>>, sceneBatches, 1)

\* OpaqueForwardLightingScenePass::SortSceneBatches: the three lists handed
\* to submission.
SortSceneBatches ==
    [ sortedUnlitBaseBatches_ |-> SortBatches(unlitBaseBatches_),
      sortedLitBaseBatches_ |-> SortBatches(litBaseBatches_),
      sortedLightBatches_ |-> SortBatches(TVFlatten(lightBatches_)) ]

\* A lit geometry and a point light; a geometry that is in both buckets
\* before a lit one.
CreationScenes ==
    { SceneOf(<<PassGeometry("matLit"), PointLight>>),
      SceneOf(<<PassGeometry("matUnlitBase"), PassGeometry("matLit")>>) }

\* The materials a callback returns no pipeline state for: none, or one of
\* the materials of the scenes.
FailingMaterials == { {}, {"matLit"}, {"matUnlitBase"} }

\* The scene pass as constructed, called with callbacks that may fail.
InitCreation ==
    /\ CollectorInit(CreationScenes, {<<ForwardLitBasePass>>}, {DefaultQuality})
    /\ ScenePassConstructed
    /\ collectArgs \in { [args EXCEPT !.callback = materials] :
                           args \in CollectArgsOf(scene), materials \in FailingMaterials }

\* The scene pass over frames whose creation callback may fail.
SpecCreation == InitCreation /\ [][ScenePassNext]_vars

\* The batches of the lists handed to submission.
SubmittedBatches ==
    Range(SortSceneBatches.sortedUnlitBaseBatches_)
        \cup Range(SortSceneBatches.sortedLitBaseBatches_)
        \cup Range(SortSceneBatches.sortedLightBatches_)

\* The batches of the final lists of the frame.
FinalBatches ==
    Range(unlitBaseBatches_) \cup Range(litBaseBatches_) \cup Range(TVFlatten(lightBatches_))

\* A batch the creation callback returns no state for.
CreationFails(batch) == batch.material_ \in collectArgs.callback

\* Every batch the callback can create a state for is resolved and handed
\* to submission.
OtherBatchesEmitted ==
    \A batch \in FinalBatches :
        ~CreationFails(batch) => (batch.pipelineState_ # NULL /\ batch \in SubmittedBatches)

\* C24: a failed pipeline-state creation is a soft failure of one batch:
\* when CollectSceneBatches has returned, no batch without a pipeline state
\* is in the lists handed to submission, every batch the callback can create
\* a state for is resolved and in those lists, and the frame was not aborted.
C24_FailedCreationSkipsBatch ==
    /\ passPc # "Aborted"
    /\ CollectSceneBatchesReturned =>
          /\ \A batch \in SubmittedBatches : batch.pipelineState_ # NULL
          /\ OtherBatchesEmitted

====
